---- MODULE Spec2Model ----
(***************************************************************************)
(* Model of the JustDownloadIt download core.                              *)
(*                                                                         *)
(*  Spec    one composite YouTube session of core/youtube_downloader.py:   *)
(*          the driver thread (_download, _download_video), its two fetch  *)
(*          threads (_download_stream) and cancel().  The session has a    *)
(*          progress callback registered; `events` is the sequence of      *)
(*          calls made to it.                                              *)
(*  SpecSM  the StateManager of utils/state_manager.py under arbitrary     *)
(*          sequences of calls to its public methods.                      *)
(*  SpecMux the mux step of _download_video from the started subprocess to *)
(*          the end of the session, with the status lines, the clock and   *)
(*          the percent values of the mux events.                          *)
(*  SpecHook the progress_hook of _download_stream under the callbacks of  *)
(*          one backend download, with the percent values it reports.      *)
(*  SpecDL  one download of the Downloader of core/downloader.py: start(), *)
(*          the monitor loop of _download, cancel() and the status that    *)
(*          DownloadManager.get_download_status reports for it.            *)
(*  SpecCB  the calls the progress hooks of the two fetch threads make to  *)
(*          the caller's progress callback, each call from its entry to    *)
(*          its return.                                                    *)
(*  SpecSel _extract_formats as a function of the formats the backend      *)
(*          lists and of the preferred quality, followed by the fetches    *)
(*          _download starts for what was selected.                        *)
(*  SpecDM  the DownloadTracker and the DownloadManager of                 *)
(*          core/download_manager.py under calls from two threads, with    *)
(*          cancel_download, cancel_all and shutdown followed step by      *)
(*          step.                                                          *)
(*  SpecLM  the url-keyed DownloadManager of                               *)
(*          justdownloadit/core/download_manager.py: download,             *)
(*          download_youtube and cancel_download.                          *)
(*  SpecRD  the Downloader of core/regular_downloader.py: start() in the   *)
(*          steps of its monitoring loop and final-state update, and       *)
(*          cancel() from two threads in the steps of its locked block.    *)
(*  SpecMD  StateManager.set_metadata from two threads in its three        *)
(*          steps, with remove_download in between.                        *)
(*  SpecPT  the file names several sessions of youtube_downloader.py       *)
(*          running side by side give their temp files and their output.   *)
(***************************************************************************)
EXTENDS Naturals, Integers, Sequences, FiniteSets, TLC

\* ------------------------------------------------------------------ bounds
\* number of 'downloading' callbacks the backend makes per fetch
MaxChunks == 2
\* number of status lines read from the mux subprocess
MaxMuxLines == 2
\* number of StateManager calls in one run
MaxCalls == 4
\* reading of the clock at which the mux step stops being followed, in
\* units of 50 ms
MaxTime == 4
\* number of callbacks the backend makes to one progress_hook
MaxHookCalls == 3
\* number of progress reports of one monitor loop of Downloader._download
MaxPolls == 3
\* number of calls one fetch thread makes to the progress callback
MaxCallbacks == 2
\* number of formats the backend lists for one video
MaxFormats == 3
\* number of calls made to the download manager and its tracker
MaxDmCalls == 4
\* number of downloaders the url-keyed manager creates
MaxDownloaders == 3
\* number of cancel() calls made on the regular Downloader
MaxCancelCalls == 3
\* number of set_metadata and remove_download calls made
MaxMetaCalls == 4
\* number of sessions that run side by side
MaxSessions == 2
\* size in blocks of the file the SmartDL object downloads
MaxSize == 2

\* ------------------------------------------------------------- vocabulary
Threads == {"video", "audio"}

Paths == {"video", "audio", "combined", "final"}

TempPaths == {"video", "audio", "combined"}

\* A path holds "none" (no file), "empty" (a zero-length file), "video" or
\* "audio" (one elementary stream) or "muxed" (the combined result).

TerminalStates == {"COMPLETED", "ERROR", "CANCELLED"}

VARIABLES
    hasV,           \* "v=" occurs in self.url
    video_format,   \* _extract_formats returned a video format
    audio_format,   \* _extract_formats returned an audio format
    pc,             \* position of the driver thread
    tpc,            \* position of each fetch thread
    chunks,         \* 'downloading' callbacks seen per fetch thread
    fs,             \* the filesystem: Paths -> Contents
    events,         \* calls to self.progress_callback, in order
    stop_flag,      \* self._stop_flag
    proc,           \* the mux subprocess: "none", "running", "exited"
    returncode,     \* its exit code once exited
    muxLines,       \* status lines read so far
    err_site,       \* the raise statement that ended the driver, if any
    outcome,        \* what _download ends with: "success" or the error raised
    cancel_race,    \* history: cancel() ran after both fetches succeeded and
                    \* before the mux subprocess was started
    audio_only,     \* self.audio_only
    duration,       \* the local duration of the mux step: {} is None, {d} is
                    \* d units of 50 ms
    mux_out,        \* history: the output file the mux subprocess left
    cancel_seen,    \* history: the fetches that were downloading, and
                    \* "muxing" when the mux subprocess was running, when
                    \* cancel() ran
    after_cancel,   \* history: 'downloading' callbacks each of those fetches
                    \* has made since
    now,            \* time.time(), in units of 50 ms
    last_progress_update, \* the local of that name in the mux step
    time_processed, \* the time= value parsed from the last line read: {} when
                    \* the line had none, {t} for t seconds
    mx_progress,    \* progress value and time of delivery of the mux events
                    \* (the PROCESSING ones are followed under SpecMux)
    hk_component,   \* the component progress_hook reports for: "audio" or
                    \* "video" by is_audio, "none" when self.audio_only
    hk_downloaded,  \* downloaded_bytes of the backend's last callback
    hk_done,        \* the backend has made its 'finished' callback
    hk_calls,       \* callbacks the backend has made
    hk_events,      \* calls progress_hook made to self.progress_callback
    dl_pc,          \* Downloader: position of start() and of the _download thread
    dl_obj,         \* the SmartDL object: "none", "downloading", "errors",
                    \* "finished_ok", "finished_failed", "stopped"
    dl_cancelled,   \* Downloader._cancelled
    dl_error_message, \* Downloader.error_message ("None" or the message)
    dl_completed,   \* Downloader.completed
    dl_exc,         \* the exception that ended _download, "none" if none
    dl_events,      \* the texts passed to Downloader._progress_callback
    dl_polls,       \* progress reports made by the monitor loop
    dl_size,        \* obj.get_dl_size(), the blocks downloaded so far
    cb_pc,          \* per fetch thread: "fetching", "in_callback", "returned"
    cb_calls,       \* per fetch thread: calls made to self.progress_callback
    cb_log,         \* the components of the calls, in the order they returned
    formats,        \* info['formats'], in the order the backend lists them
    sel_audio_only, \* self.audio_only of the selecting downloader
    sel_quality,    \* self.video_quality: 'highest' or a height
    sel_abr,        \* self.audio_quality, the target bitrate in kbit/s
    sel_video,      \* the video_format returned: {} is None, {f} a format
    sel_audio,      \* the audio_format returned: {} is None, {f} a format
    sel_pc,         \* "extract", "selected", "dispatched"
    sel_started,    \* the fetches _download started: subset of Threads
    sel_outcome,    \* "none", or the error raised before any fetch
    dm_url_to_id,   \* DownloadTracker._url_to_id
    dm_active,      \* DownloadTracker._active_downloads: id -> downloader
    dm_cancelled,   \* the downloaders whose cancel() was called
    dm_stop_flag,   \* DownloadManager._stop_flag
    dm_queue,       \* number of tasks in DownloadManager.download_queue
    dm_th,          \* per calling thread: the call it is in and its locals
    dm_raised,      \* the calls that raised: pairs <<method, exception>>
    dm_reported,    \* the component completions reported for a tracked
                    \* download since it was added: <<id, component>>
    dm_events,      \* the ids of the final 'Download complete' events sent
    dm_calls,       \* number of calls made so far
    lm_active,      \* DownloadManager.active_downloads: url -> downloader
    lm_running,     \* the downloaders started and neither finished nor cancelled
    lm_cancelled,   \* the downloaders whose cancel() was called
    lm_made,        \* number of downloaders created so far
    rd_state,       \* Downloader.state
    rd_pc,          \* where start() is
    rd_obj,         \* the SmartDL object: "none", "downloading", "ok", "failed"
    rd_cancelled,   \* Downloader._cancelled
    rd_lock,        \* the thread that holds Downloader._lock, or "none"
    rd_cpc,         \* per cancelling thread: where its cancel() is
    rd_callback,    \* whether set_progress_callback was called
    rd_events,      \* the states delivered to the progress callback
    rd_completions, \* number of calls of the completion callback
    rd_cancels,     \* number of cancel() calls made so far
    md_heap,        \* the metadata dicts made so far, each the set of its keys
    md_stored,      \* StateManager._metadata[download_id]: a dict of md_heap, or 0
    md_th,          \* per calling thread: where its set_metadata is, its meta and key
    md_done,        \* the keys set by calls that returned since the last removal
    md_removed,     \* remove_download was called and no set_metadata began since
    md_calls,       \* number of calls made so far
    pt_sessions,    \* per session: its stage, url, mode, download_id and paths
    pt_issued,      \* number of names uuid4 and mkdtemp have issued
    sm_states,      \* StateManager._states
    sm_progress,    \* StateManager._progress (the state field of each entry)
    sm_callbacks,   \* StateManager._callbacks
    sm_delivered,   \* calls made to registered callbacks, in order
    sm_last,        \* the last public call made, with whether it raised
    sm_calls        \* number of calls made

ytVars == <<hasV, video_format, audio_format, pc, tpc, chunks, fs, events,
            stop_flag, proc, returncode, muxLines, err_site, outcome,
            cancel_race, audio_only, duration, mux_out, cancel_seen,
            after_cancel>>

muxVars == <<now, last_progress_update, time_processed, mx_progress>>

hookVars == <<hk_component, hk_downloaded, hk_done, hk_calls, hk_events>>

smVars == <<sm_states, sm_progress, sm_callbacks, sm_delivered, sm_last, sm_calls>>

dlVars == <<dl_pc, dl_obj, dl_cancelled, dl_error_message, dl_completed,
            dl_exc, dl_events, dl_polls, dl_size>>

cbVars == <<cb_pc, cb_calls, cb_log>>

selVars == <<formats, sel_audio_only, sel_quality, sel_abr, sel_video,
             sel_audio, sel_pc, sel_started, sel_outcome>>

dmVars == <<dm_url_to_id, dm_active, dm_cancelled, dm_stop_flag, dm_queue,
            dm_th, dm_raised, dm_reported, dm_events, dm_calls>>

lmVars == <<lm_active, lm_running, lm_cancelled, lm_made>>

rdVars == <<rd_state, rd_pc, rd_obj, rd_cancelled, rd_lock, rd_cpc,
            rd_callback, rd_events, rd_completions, rd_cancels>>

mdVars == <<md_heap, md_stored, md_th, md_done, md_removed, md_calls>>

ptVars == <<pt_sessions, pt_issued>>

\* the components of the managers and of the regular Downloader
lateVars == <<dmVars, lmVars, rdVars, mdVars, ptVars>>

\* the components added to the model after the four above
otherVars == <<dlVars, cbVars, selVars, lateVars>>

coreVars == <<ytVars, smVars, muxVars, hookVars>>

\* what the actions of the Downloader leave alone
notDL == <<coreVars, cbVars, selVars, lateVars>>

\* what the actions of the progress callback leave alone
notCB == <<coreVars, dlVars, selVars, lateVars>>

\* what the actions of the format selection leave alone
notSel == <<coreVars, dlVars, cbVars, lateVars>>

\* what the actions of the download manager leave alone
notDM == <<coreVars, dlVars, cbVars, selVars, lmVars, rdVars, mdVars, ptVars>>

\* what the actions of the url-keyed download manager leave alone
notLM == <<coreVars, dlVars, cbVars, selVars, dmVars, rdVars, mdVars, ptVars>>

\* what the actions of the regular Downloader leave alone
notRD == <<coreVars, dlVars, cbVars, selVars, dmVars, lmVars, mdVars, ptVars>>

\* what the actions of the metadata calls leave alone
notMD == <<coreVars, dlVars, cbVars, selVars, dmVars, lmVars, rdVars, ptVars>>

\* what the actions of the path naming leave alone
notPT == <<coreVars, dlVars, cbVars, selVars, dmVars, lmVars, rdVars, mdVars>>

vars == <<coreVars, otherVars>>

\* ------------------------------------------------ the YouTube session
Event(c, s) == [component |-> c, state |-> s]

Exists(p) == fs[p] # "none"

\* a fetch thread that is not running: never started, returned, or died
Settled(t) == tpc[t] \in {"unstarted", "ok", "failed"}

\* a driver whose list of threads to join holds the video thread only
JoinedVideoOnly(t) == t = "audio" \/ Settled(t)

\* thread.join() of the driver on fetch thread t
Joined(t) == Settled(t)

\* the message of the YouTubeError each raise statement of _download_video
\* builds
SiteError(site) ==
    CASE site = "popen"    -> "SpawnError"
      [] site = "mux_exit" -> "MuxFailed"
      [] site = "missing"  -> "OutputNotFound"
      [] site = "empty"    -> "OutputEmpty"
      [] site = "no_files" -> "NoValidFiles"

\* The exception _download ends with.  Every raise of _download_video
\* evaluates self.url.split('v=')[1] while building its YouTubeError, and so
\* does the handler at the end of _download_video: for a url without "v="
\* that is an IndexError, which _download wraps into a generic YouTubeError.
Propagate(site) ==
    IF site = "extract" THEN "ExtractionError"
    ELSE IF hasV THEN SiteError(site)
    ELSE "IndexErrorWrapped"

\* an exception leaves _download_video: the TemporaryDirectory block is left,
\* which removes the directory that holds the combined file
Raise(site) ==
    /\ pc' = "raised"
    /\ err_site' = site
    /\ outcome' = Propagate(site)
    /\ fs' = [fs EXCEPT !["combined"] = "none"]

YTInit ==
    /\ hasV \in BOOLEAN
    /\ video_format = FALSE
    /\ audio_format = FALSE
    /\ pc = "extract"
    /\ tpc = [t \in Threads |-> "unstarted"]
    /\ chunks = [t \in Threads |-> 0]
    /\ fs = [p \in Paths |-> "none"]
    /\ events = <<>>
    /\ stop_flag = FALSE
    /\ proc = "none"
    /\ returncode = 0
    /\ muxLines = 0
    /\ err_site = "none"
    /\ outcome = "none"
    /\ cancel_race = FALSE
    /\ audio_only \in BOOLEAN
    /\ duration = {}
    /\ mux_out = "none"
    /\ cancel_seen = {}
    /\ after_cancel = [t \in Threads |-> 0]

\* _download: self._extract_formats(url) raises a YouTubeError
ExtractFails ==
    /\ pc = "extract"
    /\ Raise("extract")
    /\ UNCHANGED <<otherVars, smVars, hookVars, muxVars, audio_only, duration, mux_out,
                   cancel_seen, after_cancel, hasV, video_format,
                   audio_format, tpc, chunks, events,
                   stop_flag, proc, returncode, muxLines, cancel_race>>

\* _download: the branch on self.audio_only after the formats are known
AfterExtract == IF audio_only THEN "ao_stream" ELSE "start_video"

\* _download: self._extract_formats(url) returns; either format may be None,
\* and the video format is None in audio-only mode
ExtractFormats ==
    /\ pc = "extract"
    /\ \E v \in (IF audio_only THEN {FALSE} ELSE BOOLEAN), a \in BOOLEAN :
          /\ video_format' = v
          /\ audio_format' = a
    /\ pc' = AfterExtract
    /\ UNCHANGED <<otherVars, smVars, hookVars, muxVars, audio_only, duration, mux_out,
                   cancel_seen, after_cancel, hasV, tpc, chunks, fs, events,
                   stop_flag, proc, returncode,
                   muxLines, err_site, outcome, cancel_race>>

\* an audio-only session that hands the audio path to the backend
AudioOnlyTargetAudioPath == "audio"

\* _download, audio-only: target_path=output_path
AudioOnlyTarget == "final"

\* _download, audio-only: audio_format is None, audio_format['format_id'] is
\* a TypeError, which _download wraps into a YouTubeError
AudioOnlyNoFormat ==
    /\ pc = "ao_stream"
    /\ ~audio_format
    /\ pc' = "raised"
    /\ err_site' = "ao_format"
    /\ outcome' = "DownloadError"
    /\ UNCHANGED <<otherVars, smVars, hookVars, muxVars, audio_only, duration, mux_out,
                   cancel_seen, after_cancel, hasV, video_format,
                   audio_format, tpc, chunks,
                   fs, events, stop_flag, proc, returncode, muxLines,
                   cancel_race>>

\* _download, audio-only: progress_hook with status 'downloading', called in
\* the driver thread; the event has no component
AudioOnlyProgress ==
    /\ pc = "ao_stream"
    /\ audio_format
    /\ chunks["audio"] < MaxChunks
    /\ chunks' = [chunks EXCEPT !["audio"] = @ + 1]
    /\ after_cancel' = IF "audio" \in cancel_seen
                       THEN [after_cancel EXCEPT !["audio"] = @ + 1]
                       ELSE after_cancel
    /\ events' = Append(events, Event("none", "DOWNLOADING"))
    /\ UNCHANGED <<otherVars, smVars, hookVars, muxVars, audio_only, duration, mux_out,
                   cancel_seen,
                   hasV, video_format, audio_format, pc, tpc, fs, stop_flag,
                   proc, returncode, muxLines, err_site, outcome, cancel_race>>

\* _download, audio-only: the backend has written the file to target_path and
\* calls progress_hook with status 'finished'
AudioOnlyFinished ==
    /\ pc = "ao_stream"
    /\ audio_format
    /\ fs' = [fs EXCEPT ![AudioOnlyTarget] = "audio"]
    /\ events' = Append(events, Event("none", "COMPLETED"))
    /\ pc' = "ao_finished"
    /\ UNCHANGED <<otherVars, smVars, hookVars, muxVars, audio_only, duration, mux_out,
                   cancel_seen, after_cancel, hasV, video_format,
                   audio_format, tpc, chunks,
                   stop_flag, proc, returncode, muxLines, err_site, outcome,
                   cancel_race>>

\* _download, audio-only: _download_stream returns, and so does _download
AudioOnlyReturn ==
    /\ pc = "ao_finished"
    /\ pc' = "done"
    /\ outcome' = "success"
    /\ UNCHANGED <<otherVars, smVars, hookVars, muxVars, audio_only, duration, mux_out,
                   cancel_seen, after_cancel, hasV, video_format,
                   audio_format, tpc, chunks,
                   fs, events, stop_flag, proc, returncode, muxLines, err_site,
                   cancel_race>>

\* _download, audio-only: ydl.download raises, _download_stream re-raises and
\* _download wraps the exception into a YouTubeError
AudioOnlyFails ==
    /\ pc = "ao_stream"
    /\ audio_format
    /\ pc' = "raised"
    /\ err_site' = "ao_stream"
    /\ outcome' = "DownloadError"
    /\ UNCHANGED <<otherVars, smVars, hookVars, muxVars, audio_only, duration, mux_out,
                   cancel_seen, after_cancel, hasV, video_format,
                   audio_format, tpc, chunks,
                   fs, events, stop_flag, proc, returncode, muxLines,
                   cancel_race>>

\* _download_video: create and start the video thread, if a video format
\* was selected
StartVideo ==
    /\ pc = "start_video"
    /\ tpc' = IF video_format THEN [tpc EXCEPT !["video"] = "running"] ELSE tpc
    /\ pc' = "start_audio"
    /\ UNCHANGED <<otherVars, smVars, hookVars, muxVars, audio_only, duration, mux_out,
                   cancel_seen, after_cancel, hasV, video_format,
                   audio_format, chunks, fs, events,
                   stop_flag, proc, returncode, muxLines, err_site, outcome,
                   cancel_race>>

\* _download_video: create and start the audio thread, if an audio format
\* was selected
StartAudio ==
    /\ pc = "start_audio"
    /\ tpc' = IF audio_format THEN [tpc EXCEPT !["audio"] = "running"] ELSE tpc
    /\ pc' = "join"
    /\ UNCHANGED <<otherVars, smVars, hookVars, muxVars, audio_only, duration, mux_out,
                   cancel_seen, after_cancel, hasV, video_format,
                   audio_format, chunks, fs, events,
                   stop_flag, proc, returncode, muxLines, err_site, outcome,
                   cancel_race>>

\* _download_video: for thread in download_threads: thread.join()
JoinThreads ==
    /\ pc = "join"
    /\ \A t \in Threads : Joined(t)
    /\ pc' = "branch"
    /\ UNCHANGED <<otherVars, smVars, hookVars, muxVars, audio_only, duration, mux_out,
                   cancel_seen, after_cancel, hasV, video_format,
                   audio_format, tpc, chunks, fs, events,
                   stop_flag, proc, returncode, muxLines, err_site, outcome,
                   cancel_race>>

\* the condition of the mux branch (audio_only is False in this session)
BothPresent ==
    /\ video_format
    /\ audio_format
    /\ Exists("video")
    /\ Exists("audio")

\* _download_video: both files exist, subprocess.Popen starts ffmpeg
StartMux ==
    /\ pc = "branch"
    /\ BothPresent
    /\ proc' = "running"
    /\ last_progress_update' = now
    /\ pc' = "mux_duration"
    /\ UNCHANGED <<otherVars, smVars, hookVars, now, time_processed, mx_progress,
                   audio_only, duration, mux_out, cancel_seen, after_cancel,
                   hasV, video_format, audio_format, tpc, chunks, fs, events,
                   stop_flag, returncode, muxLines, err_site, outcome,
                   cancel_race>>

\* _download_video: both files exist, subprocess.Popen raises (no ffmpeg)
StartMuxFails ==
    /\ pc = "branch"
    /\ BothPresent
    /\ Raise("popen")
    /\ UNCHANGED <<otherVars, smVars, hookVars, muxVars, audio_only, duration, mux_out,
                   cancel_seen, after_cancel, hasV, video_format,
                   audio_format, tpc, chunks, events,
                   stop_flag, proc, returncode, muxLines, cancel_race>>

\* _download_video: the elif branch, only the video file is moved to the
\* output path
MoveVideoOnly ==
    /\ pc = "branch"
    /\ ~BothPresent
    /\ Exists("video")
    /\ fs' = [fs EXCEPT !["final"] = fs["video"], !["video"] = "none"]
    /\ pc' = "done"
    /\ outcome' = "success"
    /\ UNCHANGED <<otherVars, smVars, hookVars, muxVars, audio_only, duration, mux_out,
                   cancel_seen, after_cancel, hasV, video_format,
                   audio_format, tpc, chunks, events,
                   stop_flag, proc, returncode, muxLines, err_site,
                   cancel_race>>

\* _download_video: the else branch, "No valid video or audio files found"
NoValidFiles ==
    /\ pc = "branch"
    /\ ~BothPresent
    /\ ~Exists("video")
    /\ Raise("no_files")
    /\ UNCHANGED <<otherVars, smVars, hookVars, muxVars, audio_only, duration, mux_out,
                   cancel_seen, after_cancel, hasV, video_format,
                   audio_format, tpc, chunks, events,
                   stop_flag, proc, returncode, muxLines, cancel_race>>

\* the parsed durations the model follows, in seconds
Durations == {0, 2}

\* the values the first stderr loop can leave in duration: None when the
\* stream has no 'Duration:' line or the line does not parse
DurationOutcomes == {{}} \cup {{d} : d \in Durations}

\* the value of the local duration where it is not None
DurationValue == CHOOSE d \in duration : TRUE

\* "if duration": neither None nor 0.0
DurationTruthy == duration # {} /\ DurationValue # 0

\* a driver that treats a stream without a parsable duration as a failure
ReadDurationFatal ==
    /\ pc = "mux_duration"
    /\ proc = "running"
    /\ \E d \in DurationOutcomes :
          /\ duration' = d
          /\ IF d = {}
             THEN /\ pc' = "raised"
                  /\ err_site' = "duration"
                  /\ outcome' = "DurationError"
             ELSE /\ pc' = "mux_read"
                  /\ UNCHANGED <<err_site, outcome>>
    /\ UNCHANGED <<otherVars, smVars, hookVars, muxVars, audio_only, mux_out,
                   cancel_seen, after_cancel, hasV, video_format,
                   audio_format, tpc, chunks,
                   fs, events, stop_flag, proc, returncode, muxLines,
                   cancel_race>>

\* _download_video: the first loop over stderr, up to the 'Duration:' line or
\* the end of the stream
ReadDuration ==
    /\ pc = "mux_duration"
    /\ proc = "running"
    /\ \E d \in DurationOutcomes : duration' = d
    /\ pc' = "mux_read"
    /\ UNCHANGED <<otherVars, smVars, hookVars, muxVars, audio_only, mux_out,
                   cancel_seen, after_cancel, hasV, video_format,
                   audio_format, tpc, chunks,
                   fs, events, stop_flag, proc, returncode, muxLines, err_site,
                   outcome, cancel_race>>

\* _download_video: one status line of ffmpeg is read; it is reported to the
\* callback when it parses, the duration is known and 100 ms have passed
MuxLine ==
    /\ pc = "mux_read"
    /\ proc = "running"
    /\ muxLines < MaxMuxLines
    /\ muxLines' = muxLines + 1
    /\ \E report \in (IF DurationTruthy THEN BOOLEAN ELSE {FALSE}) :
          events' = IF report THEN Append(events, Event("muxing", "PROCESSING"))
                    ELSE events
    /\ UNCHANGED <<otherVars, smVars, hookVars, muxVars, audio_only, duration, mux_out,
                   cancel_seen, after_cancel, hasV, video_format,
                   audio_format, pc, tpc, chunks, fs,
                   stop_flag, proc, returncode, err_site, outcome,
                   cancel_race>>

\* the ffmpeg process ends: any exit code, with no, an empty or a populated
\* output file
MuxExit ==
    /\ pc = "mux_read"
    /\ proc = "running"
    /\ \E rc \in {0, 1}, out \in {"none", "empty", "muxed"} :
          /\ returncode' = rc
          /\ fs' = [fs EXCEPT !["combined"] = out]
          /\ mux_out' = out
    /\ proc' = "exited"
    /\ pc' = "mux_wait"
    /\ UNCHANGED <<otherVars, smVars, hookVars, muxVars, audio_only, duration,
                   cancel_seen, after_cancel, hasV, video_format,
                   audio_format, tpc, chunks, events,
                   stop_flag, muxLines, err_site, outcome, cancel_race>>

\* _download_video: returncode = process.wait(); a non-zero code raises
MuxFailed ==
    /\ pc = "mux_wait"
    /\ returncode # 0
    /\ Raise("mux_exit")
    /\ UNCHANGED <<otherVars, smVars, hookVars, muxVars, audio_only, duration, mux_out,
                   cancel_seen, after_cancel, hasV, video_format,
                   audio_format, tpc, chunks, events,
                   stop_flag, proc, returncode, muxLines, cancel_race>>

\* _download_video: exit code 0, "Muxing complete" is reported with state
\* COMPLETED
MuxComplete ==
    /\ pc = "mux_wait"
    /\ returncode = 0
    /\ events' = Append(events, Event("muxing", "COMPLETED"))
    /\ mx_progress' = Append(mx_progress, [progress |-> 100, at |-> now])
    /\ pc' = "verify"
    /\ UNCHANGED <<otherVars, smVars, hookVars, now, last_progress_update, time_processed,
                   audio_only, duration, mux_out, cancel_seen, after_cancel,
                   hasV, video_format, audio_format, tpc, chunks, fs,
                   stop_flag, proc, returncode, muxLines, err_site, outcome,
                   cancel_race>>

\* _download_video: the combined file does not exist
VerifyMissing ==
    /\ pc = "verify"
    /\ fs["combined"] = "none"
    /\ Raise("missing")
    /\ UNCHANGED <<otherVars, smVars, hookVars, muxVars, audio_only, duration, mux_out,
                   cancel_seen, after_cancel, hasV, video_format,
                   audio_format, tpc, chunks, events,
                   stop_flag, proc, returncode, muxLines, cancel_race>>

\* _download_video: the combined file has size 0
VerifyEmpty ==
    /\ pc = "verify"
    /\ fs["combined"] = "empty"
    /\ Raise("empty")
    /\ UNCHANGED <<otherVars, smVars, hookVars, muxVars, audio_only, duration, mux_out,
                   cancel_seen, after_cancel, hasV, video_format,
                   audio_format, tpc, chunks, events,
                   stop_flag, proc, returncode, muxLines, cancel_race>>

\* _download_video: the combined file exists and is not empty
VerifyOk ==
    /\ pc = "verify"
    /\ fs["combined"] \notin {"none", "empty"}
    /\ pc' = "move"
    /\ UNCHANGED <<otherVars, smVars, hookVars, muxVars, audio_only, duration, mux_out,
                   cancel_seen, after_cancel, hasV, video_format,
                   audio_format, tpc, chunks, fs, events,
                   stop_flag, proc, returncode, muxLines, err_site, outcome,
                   cancel_race>>

\* _download_video: remove a file at the output path, move the combined
\* file there
MoveCombined ==
    /\ pc = "move"
    /\ fs' = [fs EXCEPT !["final"] = fs["combined"], !["combined"] = "none"]
    /\ pc' = "cleanup"
    /\ UNCHANGED <<otherVars, smVars, hookVars, muxVars, audio_only, duration, mux_out,
                   cancel_seen, after_cancel, hasV, video_format,
                   audio_format, tpc, chunks, events,
                   stop_flag, proc, returncode, muxLines, err_site, outcome,
                   cancel_race>>

\* a cleanup that removes the video file and leaves the audio file
CleanupVideoOnly ==
    /\ pc = "cleanup"
    /\ fs' = [fs EXCEPT !["video"] = "none"]
    /\ pc' = "done"
    /\ outcome' = "success"
    /\ UNCHANGED <<otherVars, smVars, hookVars, muxVars, audio_only, duration, mux_out,
                   cancel_seen, after_cancel, hasV, video_format,
                   audio_format, tpc, chunks, events,
                   stop_flag, proc, returncode, muxLines, err_site,
                   cancel_race>>

\* _download_video: remove the video and the audio file; the driver returns
CleanupInputs ==
    /\ pc = "cleanup"
    /\ fs' = [fs EXCEPT !["video"] = "none", !["audio"] = "none"]
    /\ pc' = "done"
    /\ outcome' = "success"
    /\ UNCHANGED <<otherVars, smVars, hookVars, muxVars, audio_only, duration, mux_out,
                   cancel_seen, after_cancel, hasV, video_format,
                   audio_format, tpc, chunks, events,
                   stop_flag, proc, returncode, muxLines, err_site,
                   cancel_race>>

\* _download_stream.progress_hook with status 'downloading'
FetchProgress(t) ==
    /\ tpc[t] = "running"
    /\ chunks[t] < MaxChunks
    /\ chunks' = [chunks EXCEPT ![t] = @ + 1]
    /\ after_cancel' = IF t \in cancel_seen
                       THEN [after_cancel EXCEPT ![t] = @ + 1]
                       ELSE after_cancel
    /\ events' = Append(events, Event(t, "DOWNLOADING"))
    /\ UNCHANGED <<otherVars, smVars, hookVars, muxVars, audio_only, duration, mux_out,
                   cancel_seen,
                   hasV, video_format, audio_format, pc, tpc, fs, stop_flag,
                   proc, returncode, muxLines, err_site, outcome, cancel_race>>

\* the backend has written the file to target_path and calls progress_hook
\* with status 'finished', which is reported with state COMPLETED
FetchFinished(t) ==
    /\ tpc[t] = "running"
    /\ fs' = [fs EXCEPT ![t] = t]
    /\ events' = Append(events, Event(t, "COMPLETED"))
    /\ tpc' = [tpc EXCEPT ![t] = "finished_hook"]
    /\ UNCHANGED <<otherVars, smVars, hookVars, muxVars, audio_only, duration, mux_out,
                   cancel_seen, after_cancel, hasV, video_format,
                   audio_format, pc, chunks, stop_flag,
                   proc, returncode, muxLines, err_site, outcome, cancel_race>>

\* _download_stream returns, the fetch thread ends
FetchReturn(t) ==
    /\ tpc[t] = "finished_hook"
    /\ tpc' = [tpc EXCEPT ![t] = "ok"]
    /\ UNCHANGED <<otherVars, smVars, hookVars, muxVars, audio_only, duration, mux_out,
                   cancel_seen, after_cancel, hasV, video_format,
                   audio_format, pc, chunks, fs, events,
                   stop_flag, proc, returncode, muxLines, err_site, outcome,
                   cancel_race>>

\* ydl.download raises: _download_stream logs and re-raises, the fetch
\* thread dies and leaves no file at target_path
FetchFails(t) ==
    /\ tpc[t] = "running"
    /\ tpc' = [tpc EXCEPT ![t] = "failed"]
    /\ UNCHANGED <<otherVars, smVars, hookVars, muxVars, audio_only, duration, mux_out,
                   cancel_seen, after_cancel, hasV, video_format,
                   audio_format, pc, chunks, fs, events,
                   stop_flag, proc, returncode, muxLines, err_site, outcome,
                   cancel_race>>

\* the backend is downloading for fetch t: in its thread, or in the driver
\* thread of an audio-only session
Downloading(t) ==
    \/ tpc[t] = "running"
    \/ t = "audio" /\ pc = "ao_stream" /\ audio_format

\* YouTubeDownloader.cancel, called from any other thread at any time
Cancel ==
    /\ pc \notin {"done", "raised"}
    /\ stop_flag' = TRUE
    /\ cancel_race' = (cancel_race \/
                        ((\A t \in Threads : tpc[t] = "ok") /\ proc = "none"))
    /\ cancel_seen' = cancel_seen \cup {t \in Threads : Downloading(t)}
                          \cup (IF proc = "running" THEN {"muxing"} ELSE {})
    /\ UNCHANGED <<otherVars, smVars, hookVars, muxVars, audio_only, duration, mux_out,
                   after_cancel, hasV, video_format, audio_format, pc, tpc,
                   chunks, fs, events, proc, returncode, muxLines, err_site,
                   outcome>>

Next ==
    \/ ExtractFails
    \/ ExtractFormats
    \/ AudioOnlyNoFormat
    \/ AudioOnlyProgress
    \/ AudioOnlyFinished
    \/ AudioOnlyReturn
    \/ AudioOnlyFails
    \/ StartVideo
    \/ StartAudio
    \/ JoinThreads
    \/ StartMux
    \/ StartMuxFails
    \/ ReadDuration
    \/ MoveVideoOnly
    \/ NoValidFiles
    \/ MuxLine
    \/ MuxExit
    \/ MuxFailed
    \/ MuxComplete
    \/ VerifyMissing
    \/ VerifyEmpty
    \/ VerifyOk
    \/ MoveCombined
    \/ CleanupInputs
    \/ \E t \in Threads : FetchProgress(t)
    \/ \E t \in Threads : FetchFinished(t)
    \/ \E t \in Threads : FetchReturn(t)
    \/ \E t \in Threads : FetchFails(t)
    \/ Cancel

\* ------------------------------------------------ the StateManager
Ids == {"d1", "d2"}

\* DownloadState of utils/state_manager.py
DownloadStates == {"QUEUED", "INITIALIZING", "DOWNLOADING", "PROCESSING",
                   "COMPLETED", "ERROR", "CANCELLED", "PAUSED"}

\* the progress values update_progress is called with
ProgressValues == {50}

\* DownloadProgress(): the fields the model follows
NewProgress == [progress |-> 0, state |-> "QUEUED"]

\* dict[key] = value
DictSet(d, key, value) ==
    [k \in DOMAIN d \cup {key} |-> IF k = key THEN value ELSE d[k]]

\* dict.pop(key, None)
DictPop(d, key) == [k \in DOMAIN d \ {key} |-> d[k]]

\* StateManager.get_state
get_state(id) == IF id \in DOMAIN sm_states THEN sm_states[id] ELSE "None"

\* StateManager.get_progress: whether an entry is stored for id
HasProgress(id) == id \in DOMAIN sm_progress

\* StateManager._notify_progress: the callback registered for id, if there
\* is one, is called with the progress entry; what it raises is swallowed
NotifyProgress(id, progress) ==
    sm_delivered' = IF id \in sm_callbacks
                    THEN Append(sm_delivered,
                                [id |-> id, state |-> progress.state,
                                 progress |-> progress.progress])
                    ELSE sm_delivered

\* one more call of a public method, with the state it was given (if any),
\* which returned or raised
Called(op, id, state, raised) ==
    /\ sm_calls < MaxCalls
    /\ sm_calls' = sm_calls + 1
    /\ sm_last' = [op |-> op, id |-> id, state |-> state, raised |-> raised]

SMInit ==
    /\ sm_states = <<>>
    /\ sm_progress = <<>>
    /\ sm_callbacks = {}
    /\ sm_delivered = <<>>
    /\ sm_last = [op |-> "none", id |-> "none", state |-> "none", raised |-> FALSE]
    /\ sm_calls = 0

\* StateManager.register_download(id, callback)
RegisterDownload(id, withCallback) ==
    /\ Called("register_download", id, "none", FALSE)
    /\ sm_states' = DictSet(sm_states, id, "QUEUED")
    /\ sm_progress' = DictSet(sm_progress, id, NewProgress)
    /\ sm_callbacks' = IF withCallback THEN sm_callbacks \cup {id}
                       ELSE sm_callbacks
    /\ UNCHANGED <<otherVars, ytVars, muxVars, hookVars, sm_delivered>>

\* update_state as it would be with the callback called before the new state
\* is stored in the progress entry
UpdateStateNotifyFirst(id, state) ==
    /\ Called("update_state", id, state, FALSE)
    /\ sm_states' = DictSet(sm_states, id, state)
    /\ IF HasProgress(id)
       THEN /\ sm_progress' = [sm_progress EXCEPT ![id].state = state]
            /\ NotifyProgress(id, sm_progress[id])
       ELSE UNCHANGED <<sm_progress, sm_delivered>>
    /\ UNCHANGED <<otherVars, ytVars, muxVars, hookVars, sm_callbacks>>

\* StateManager.update_state(id, state)
UpdateState(id, state) ==
    /\ Called("update_state", id, state, FALSE)
    /\ sm_states' = DictSet(sm_states, id, state)
    /\ IF HasProgress(id)
       THEN /\ sm_progress' = [sm_progress EXCEPT ![id].state = state]
            /\ NotifyProgress(id, sm_progress'[id])
       ELSE UNCHANGED <<sm_progress, sm_delivered>>
    /\ UNCHANGED <<otherVars, ytVars, muxVars, hookVars, sm_callbacks>>

\* StateManager.update_progress(id, progress=p)
UpdateProgress(id, p) ==
    /\ Called("update_progress", id, "none", FALSE)
    /\ IF HasProgress(id)
       THEN /\ sm_progress' = [sm_progress EXCEPT ![id].progress = p]
            /\ NotifyProgress(id, sm_progress'[id])
       ELSE UNCHANGED <<sm_progress, sm_delivered>>
    /\ UNCHANGED <<otherVars, ytVars, muxVars, hookVars, sm_states, sm_callbacks>>

\* StateManager.remove_download(id)
RemoveDownload(id) ==
    /\ Called("remove_download", id, "none", FALSE)
    /\ sm_states' = DictPop(sm_states, id)
    /\ sm_progress' = DictPop(sm_progress, id)
    /\ sm_callbacks' = sm_callbacks \ {id}
    /\ UNCHANGED <<otherVars, ytVars, muxVars, hookVars, sm_delivered>>

\* StateManager.clear_all()
ClearAll ==
    /\ Called("clear_all", "none", "none", FALSE)
    /\ sm_states' = <<>>
    /\ sm_progress' = <<>>
    /\ sm_callbacks' = {}
    /\ UNCHANGED <<otherVars, ytVars, muxVars, hookVars, sm_delivered>>

SMNext ==
    \/ \E id \in Ids, cb \in BOOLEAN : RegisterDownload(id, cb)
    \/ \E id \in Ids, st \in DownloadStates : UpdateState(id, st)
    \/ \E id \in Ids, p \in ProgressValues : UpdateProgress(id, p)
    \/ \E id \in Ids : RemoveDownload(id)
    \/ ClearAll

\* ------------------------------------------------ the mux step in time
\* 0.1 s, the least time between two reports of the monitor loop, in units
\* of 50 ms
ThrottleTicks == 2

\* the time= values of the status lines, in seconds
TimeValues == {1, 3}

\* the lines the monitor loop reads: {} is a line without frame=, time= and
\* speed= or with a time that has no ':', {t} a status line with time t
StatusLines == {{}} \cup {{t} : t \in TimeValues}

\* progress = (time_processed / duration) * 100
MuxPercent(t, d) == (t * 100) \div d

\* the monitor loop reports the line it has just parsed
MuxReports(line) ==
    /\ line # {}
    /\ DurationTruthy
    /\ (CHOOSE t \in line : TRUE) <= DurationValue
    /\ now - last_progress_update >= ThrottleTicks

\* _download_video: the monitor loop reads one line of stderr
MuxStatusLine(line) ==
    /\ pc = "mux_read"
    /\ proc = "running"
    /\ muxLines < MaxMuxLines
    /\ muxLines' = muxLines + 1
    /\ time_processed' = line
    /\ IF MuxReports(line)
       THEN /\ events' = Append(events, Event("muxing", "PROCESSING"))
            /\ mx_progress' =
                  Append(mx_progress,
                         [progress |-> MuxPercent(CHOOSE t \in line : TRUE,
                                                  DurationValue),
                          at |-> now])
            /\ last_progress_update' = now
       ELSE UNCHANGED <<events, mx_progress, last_progress_update>>
    /\ UNCHANGED <<otherVars, smVars, hookVars, now, audio_only, duration, mux_out,
                   cancel_seen, after_cancel, hasV, video_format,
                   audio_format, pc, tpc,
                   chunks, fs, stop_flag, proc, returncode, err_site, outcome,
                   cancel_race>>

\* 50 ms pass while the driver is in the mux step
Tick ==
    /\ pc \in {"mux_duration", "mux_read", "mux_wait"}
    /\ now < MaxTime
    /\ now' = now + 1
    /\ UNCHANGED <<otherVars, ytVars, smVars, hookVars, last_progress_update,
                   time_processed, mx_progress>>

\* the driver has started the mux subprocess of a session whose two fetches
\* succeeded
MuxStarted ==
    /\ hasV \in BOOLEAN
    /\ video_format = TRUE
    /\ audio_format = TRUE
    /\ pc = "mux_duration"
    /\ tpc = [t \in Threads |-> "ok"]
    /\ chunks = [t \in Threads |-> 0]
    /\ fs = [p \in Paths |-> IF p \in Threads THEN p ELSE "none"]
    /\ events = <<Event("video", "COMPLETED"), Event("audio", "COMPLETED")>>
    /\ stop_flag = FALSE
    /\ proc = "running"
    /\ returncode = 0
    /\ muxLines = 0
    /\ err_site = "none"
    /\ outcome = "none"
    /\ cancel_race = FALSE
    /\ audio_only = FALSE
    /\ duration = {}
    /\ mux_out = "none"
    /\ cancel_seen = {}
    /\ after_cancel = [t \in Threads |-> 0]

MuxNext ==
    \/ ReadDuration
    \/ \E line \in StatusLines : MuxStatusLine(line)
    \/ Tick
    \/ MuxExit
    \/ MuxFailed
    \/ MuxComplete
    \/ VerifyMissing
    \/ VerifyEmpty
    \/ VerifyOk
    \/ MoveCombined
    \/ CleanupInputs

\* ------------------------------------------------ the progress hook
\* a value of the backend's progress dict: an int, None, or no such key
PyInt(n) == [tag |-> "int", val |-> n]

PyNone == [tag |-> "None", val |-> 0]

NoKey == [tag |-> "absent", val |-> 0]

\* d.get(key, default)
DictGet(x, default) == IF x.tag = "absent" THEN default ELSE x

\* the truth value of x
Truthy(x) == x.tag = "int" /\ x.val # 0

\* total = d.get('total_bytes') or d.get('total_bytes_estimate', 0)
HookTotal(d) ==
    IF Truthy(DictGet(d.total_bytes, PyNone))
    THEN d.total_bytes
    ELSE DictGet(d.total_bytes_estimate, PyInt(0))

\* progress = (downloaded / total * 100) if total > 0 else 0
HookPercent(downloaded, total) ==
    IF total > 0 THEN (downloaded * 100) \div total ELSE 0

\* the byte counts and the total sizes the backend reports
ByteValues == {1, 2}

TotalValues == {2, 4}

TotalFields == {NoKey, PyNone, PyInt(0)} \cup {PyInt(n) : n \in TotalValues}

\* the dicts the backend calls progress_hook with; downloaded_bytes does not
\* go down during one download
HookInputs ==
    [status : {"downloading", "finished", "error"},
     downloaded_bytes : {b \in ByteValues : b >= hk_downloaded},
     total_bytes : TotalFields,
     total_bytes_estimate : TotalFields]

\* the download of one stream begins
HookInit ==
    /\ hk_component \in {"video", "audio", "none"}
    /\ hk_downloaded = 0
    /\ hk_done = FALSE
    /\ hk_calls = 0
    /\ hk_events = <<>>

\* _download_stream.progress_hook(d).  A status other than 'downloading' and
\* 'finished' returns at once; a total of None makes 'total > 0' a TypeError,
\* which the hook logs, and no event is delivered.
ProgressHook(d) ==
    /\ ~hk_done
    /\ hk_calls < MaxHookCalls
    /\ hk_calls' = hk_calls + 1
    /\ hk_downloaded' = d.downloaded_bytes
    /\ hk_done' = (d.status = "finished")
    /\ hk_events' =
          IF d.status \notin {"downloading", "finished"} THEN hk_events
          ELSE IF HookTotal(d).tag = "None" THEN hk_events
          ELSE Append(hk_events,
                      [component |-> hk_component,
                       state |-> IF d.status = "finished" THEN "COMPLETED"
                                 ELSE "DOWNLOADING",
                       progress |-> HookPercent(d.downloaded_bytes,
                                                HookTotal(d).val),
                       total_size |-> HookTotal(d).val,
                       downloaded_size |-> d.downloaded_bytes])
    /\ UNCHANGED <<otherVars, ytVars, smVars, muxVars, hk_component>>

HookNext == \E d \in HookInputs : ProgressHook(d)

\* ------------------------------------------------ the Downloader
\* Downloader.__init__ of core/downloader.py
DLInit ==
    /\ dl_pc = "new"
    /\ dl_obj = "none"
    /\ dl_cancelled = FALSE
    /\ dl_error_message = "None"
    /\ dl_completed = FALSE
    /\ dl_exc = "none"
    /\ dl_events = <<>>
    /\ dl_polls = 0
    /\ dl_size = 0

\* Downloader.start: the SmartDL object is made, the thread is started and
\* _download calls obj.start(blocking=False)
DLStart ==
    /\ dl_pc = "new"
    /\ dl_pc' = "monitor"
    /\ dl_obj' = "downloading"
    /\ UNCHANGED <<notDL, dl_cancelled, dl_error_message, dl_completed,
                   dl_exc, dl_events, dl_polls, dl_size>>

\* Downloader.start: SmartDL(...) raises, start() raises DownloaderError and
\* no thread is started
DLStartFails ==
    /\ dl_pc = "new"
    /\ dl_pc' = "start_failed"
    /\ UNCHANGED <<notDL, dl_obj, dl_cancelled, dl_error_message,
                   dl_completed, dl_exc, dl_events, dl_polls, dl_size>>

\* one call of Downloader._progress_callback: the progress and the text
DLEvent(progress, text) == [progress |-> progress, text |-> text]

\* Downloader._download, the except clause: the message is stored, a
\* 'Download failed: ...' event is delivered and the exception is re-raised
DLHandle(exc, message) ==
    /\ dl_exc' = exc
    /\ dl_error_message' = message
    /\ dl_events' = Append(dl_events, DLEvent(0, "Download failed"))
    /\ dl_pc' = "raised"

\* obj.isFinished()
DLIsFinished == dl_obj \in {"finished_ok", "finished_failed"}

\* Downloader._download: one pass of the monitor loop
DLPoll ==
    /\ dl_pc = "monitor"
    /\ ~DLIsFinished
    /\ IF dl_cancelled
       THEN /\ dl_obj' = "stopped"
            /\ DLHandle("CancellationError", "Download cancelled by user")
            /\ UNCHANGED dl_polls
       ELSE IF dl_obj = "errors"
       THEN /\ DLHandle("NetworkError", "Download failed")
            /\ UNCHANGED <<dl_obj, dl_polls>>
       ELSE /\ dl_polls < MaxPolls
            /\ dl_polls' = dl_polls + 1
            /\ dl_events' = Append(dl_events, DLEvent((dl_size * 100) \div MaxSize, "filename"))
            /\ UNCHANGED <<dl_obj, dl_pc, dl_exc, dl_error_message>>
    /\ UNCHANGED <<notDL, dl_cancelled, dl_completed, dl_size>>

\* Downloader._download: the loop has ended, obj.isSuccessful() decides
DLAfterLoop ==
    /\ dl_pc = "monitor"
    /\ DLIsFinished
    /\ IF dl_obj = "finished_ok"
       THEN /\ dl_completed' = TRUE
            /\ dl_events' = Append(dl_events, DLEvent(100, "Complete!"))
            /\ dl_pc' = "done"
            /\ UNCHANGED <<dl_exc, dl_error_message>>
       ELSE /\ DLHandle("NetworkError", "Download failed")
            /\ UNCHANGED dl_completed
    /\ UNCHANGED <<notDL, dl_obj, dl_cancelled, dl_polls, dl_size>>

\* the SmartDL object downloads one more block
ObjProgress ==
    /\ dl_obj = "downloading"
    /\ dl_size < MaxSize
    /\ dl_size' = dl_size + 1
    /\ UNCHANGED <<notDL, dl_pc, dl_obj, dl_cancelled, dl_error_message,
                   dl_completed, dl_exc, dl_events, dl_polls>>

\* the SmartDL object ends its download: with success once every block is
\* there, without success after an error
ObjFinishes ==
    /\ \/ dl_obj = "downloading" /\ dl_size = MaxSize /\ dl_obj' = "finished_ok"
       \/ dl_obj = "errors" /\ dl_obj' = "finished_failed"
    /\ UNCHANGED <<notDL, dl_pc, dl_cancelled, dl_error_message,
                   dl_completed, dl_exc, dl_events, dl_polls, dl_size>>

\* the SmartDL object records an error while it is still running
ObjError ==
    /\ dl_obj = "downloading"
    /\ dl_obj' = "errors"
    /\ UNCHANGED <<notDL, dl_pc, dl_cancelled, dl_error_message,
                   dl_completed, dl_exc, dl_events, dl_polls, dl_size>>

\* Downloader.cancel: the first call sets the flag and delivers 'Download
\* cancelled'; it does not stop the SmartDL object
DLCancel ==
    /\ ~dl_cancelled
    /\ dl_cancelled' = TRUE
    /\ dl_events' = Append(dl_events, DLEvent(0, "Download cancelled"))
    /\ UNCHANGED <<notDL, dl_pc, dl_obj, dl_error_message, dl_completed,
                   dl_exc, dl_polls, dl_size>>

\* DownloadManager.get_download_status: the 'status' entry for the
\* downloader (self.status stays "pending")
get_download_status ==
    IF dl_error_message # "None" THEN "error"
    ELSE IF dl_completed THEN "completed"
    ELSE IF dl_cancelled THEN "cancelled"
    ELSE "pending"

DLNext ==
    \/ DLStart
    \/ DLStartFails
    \/ DLPoll
    \/ DLAfterLoop
    \/ ObjProgress
    \/ ObjFinishes
    \/ ObjError
    \/ DLCancel

\* ------------------------------------------------ the progress callback
\* the two threads of _download_video have been started
CBInit ==
    /\ cb_pc = [t \in Threads |-> "fetching"]
    /\ cb_calls = [t \in Threads |-> 0]
    /\ cb_log = <<>>

\* the backend of thread t calls progress_hook, which calls
\* self.progress_callback; no lock is taken on the way
CallbackEnter(t) ==
    /\ cb_pc[t] = "fetching"
    /\ cb_calls[t] < MaxCallbacks
    /\ cb_pc' = [cb_pc EXCEPT ![t] = "in_callback"]
    /\ cb_calls' = [cb_calls EXCEPT ![t] = @ + 1]
    /\ UNCHANGED <<notCB, cb_log>>

\* the progress callback called from thread t returns
CallbackReturn(t) ==
    /\ cb_pc[t] = "in_callback"
    /\ cb_pc' = [cb_pc EXCEPT ![t] = "fetching"]
    /\ cb_log' = Append(cb_log, t)
    /\ UNCHANGED <<notCB, cb_calls>>

\* _download_stream of thread t returns
FetchEnds(t) ==
    /\ cb_pc[t] = "fetching"
    /\ cb_pc' = [cb_pc EXCEPT ![t] = "returned"]
    /\ UNCHANGED <<notCB, cb_calls, cb_log>>

\* the threads for which the progress callback is executing
InCallback == {t \in Threads : cb_pc[t] = "in_callback"}

CBNext ==
    \/ \E t \in Threads : CallbackEnter(t)
    \/ \E t \in Threads : CallbackReturn(t)
    \/ \E t \in Threads : FetchEnds(t)

\* ------------------------------------------------ the format selection
\* the heights of the formats with a video codec, the bitrates of the
\* formats with an audio codec alone
Heights == {360, 720}
Bitrates == {128, 256}

\* one entry of info['formats']: whether vcodec and acodec differ from
\* 'none', the height and the abr; a storyboard has neither codec
Format(v, a, h, abr) == [vcodec |-> v, acodec |-> a, height |-> h, abr |-> abr]

VideoOnlyFormats == {Format(TRUE, FALSE, h, 0) : h \in Heights}
CombinedFormats == {Format(TRUE, TRUE, h, 0) : h \in Heights}
AudioOnlyFormats == {Format(FALSE, TRUE, 0, b) : b \in Bitrates}
Storyboards == {Format(FALSE, FALSE, 0, 0)}

Formats == VideoOnlyFormats \cup CombinedFormats \cup AudioOnlyFormats
               \cup Storyboards

\* the lists of at most n formats
FormatLists(n) == UNION {[1..k -> Formats] : k \in 0..n}

\* self.video_quality: 'highest', or '<height>p'
TargetHeights == {480, 720}
Qualities == {[highest |-> TRUE, height |-> 0]}
                 \cup {[highest |-> FALSE, height |-> h] : h \in TargetHeights}

\* self.audio_quality: '<abr>k'
TargetBitrates == {160, 256}

\* the loop that finds the audio format: a format with an audio codec and
\* vcodec 'none' replaces the one held when its abr is greater
RECURSIVE AudioLoop(_, _, _)
AudioLoop(fs_, i, best) ==
    IF i > Len(fs_) THEN best
    ELSE LET f == fs_[i]
             take == /\ f.acodec
                     /\ ~f.vcodec
                     /\ (best = {} \/ \E b \in best : f.abr > b.abr)
         IN  AudioLoop(fs_, i + 1, IF take THEN {f} ELSE best)

\* the video loop as it would be without the height <= target_height test
RECURSIVE VideoLoopTallest(_, _, _, _)
VideoLoopTallest(fs_, quality, i, best) ==
    IF i > Len(fs_) THEN best
    ELSE LET f == fs_[i]
             take == /\ f.vcodec
                     /\ (best = {} \/ \E b \in best : f.height > b.height)
         IN  VideoLoopTallest(fs_, quality, i + 1, IF take THEN {f} ELSE best)

\* the loop that finds the video format: a format with a video codec, of a
\* height within the target unless the quality is 'highest', replaces the
\* one held when it is taller
RECURSIVE VideoLoop(_, _, _, _)
VideoLoop(fs_, quality, i, best) ==
    IF i > Len(fs_) THEN best
    ELSE LET f == fs_[i]
             take == /\ f.vcodec
                     /\ (quality.highest \/ f.height <= quality.height)
                     /\ (best = {} \/ \E b \in best : f.height > b.height)
         IN  VideoLoop(fs_, quality, i + 1, IF take THEN {f} ELSE best)

\* _extract_formats as it would be without the early return of audio-only
\* mode
extract_formats_no_return(fs_, audioOnly, quality) ==
    [video |-> VideoLoop(fs_, quality, 1, {}),
     audio |-> AudioLoop(fs_, 1, {})]

\* _extract_formats: the pair (video_format, audio_format)
extract_formats(fs_, audioOnly, quality) ==
    [video |-> IF audioOnly THEN {} ELSE VideoLoop(fs_, quality, 1, {}),
     audio |-> AudioLoop(fs_, 1, {})]

\* a downloader was made for some quality and the backend lists some formats
SelInit ==
    /\ formats \in FormatLists(MaxFormats)
    /\ sel_audio_only \in BOOLEAN
    /\ sel_quality \in Qualities
    /\ sel_abr \in TargetBitrates
    /\ sel_video = {}
    /\ sel_audio = {}
    /\ sel_pc = "extract"
    /\ sel_started = {}
    /\ sel_outcome = "none"

\* _download: video_format, audio_format = self._extract_formats(url)
SelectFormats ==
    /\ sel_pc = "extract"
    /\ LET r == extract_formats(formats, sel_audio_only, sel_quality)
       IN  /\ sel_video' = r.video
           /\ sel_audio' = r.audio
    /\ sel_pc' = "selected"
    /\ UNCHANGED <<notSel, formats, sel_audio_only, sel_quality, sel_abr,
                   sel_started, sel_outcome>>

\* _download: audio-only mode reads audio_format['format_id'] and fetches
\* the audio in the driver thread, a TypeError when audio_format is None;
\* otherwise _download_video starts a thread for each format that is not
\* None, and with no thread to wait for it reaches its else branch, whose
\* raise statement is the one of NoValidFiles
StartFetches ==
    /\ sel_pc = "selected"
    /\ sel_pc' = "dispatched"
    /\ IF sel_audio_only
       THEN IF sel_audio = {}
            THEN /\ sel_outcome' = "DownloadError"
                 /\ sel_started' = {}
            ELSE /\ sel_started' = {"audio"}
                 /\ UNCHANGED sel_outcome
       ELSE /\ sel_started' = {t \in Threads :
                                 \/ t = "video" /\ sel_video # {}
                                 \/ t = "audio" /\ sel_audio # {}}
            /\ sel_outcome' = IF sel_video = {} /\ sel_audio = {}
                              THEN SiteError("no_files")
                              ELSE sel_outcome
    /\ UNCHANGED <<notSel, formats, sel_audio_only, sel_quality, sel_abr,
                   sel_video, sel_audio>>

SelNext ==
    \/ SelectFormats
    \/ StartFetches

\* ------------------------------------------------ the download manager
Urls == {"u1", "u2"}
DmIds == {"i1", "i2"}
Callers == {"t1", "t2"}

\* "d1" is a regular Downloader with a progress callback set, "d2" a
\* YouTubeDownloader, whose set_progress_callback leaves _progress_callback
\* None and whose cancel() calls nothing
Downloaders == {"d1", "d2"}
HasPrivateCallback(d) == d = "d1"

\* a thread that is in no call
NoCall == [op |-> "none", pc |-> "idle", id |-> "none", d |-> "none",
           todo |-> {}, snap |-> {}]

\* DownloadManager.__init__ and DownloadTracker.__init__
DMInit ==
    /\ dm_url_to_id = <<>>
    /\ dm_active = <<>>
    /\ dm_cancelled = {}
    /\ dm_stop_flag = FALSE
    /\ dm_queue = 0
    /\ dm_th = [t \in Callers |-> NoCall]
    /\ dm_raised = {}
    /\ dm_reported = {}
    /\ dm_events = <<>>
    /\ dm_calls = 0

\* one more call is made
DmCall ==
    /\ dm_calls < MaxDmCalls
    /\ dm_calls' = dm_calls + 1

\* DownloadTracker.get_active_downloads
get_active_downloads == DOMAIN dm_active

\* DownloadTracker.is_url_active
is_url_active(url) == url \in DOMAIN dm_url_to_id

\* DownloadTracker.remove_download past its membership test: the first url
\* that maps to the id, if there is one, is deleted from _url_to_id, then
\* the id from _active_downloads.  Which url is first depends on the order
\* of insertion, which the model does not follow.
RemoveTracked(id) ==
    /\ \E u \in {v \in DOMAIN dm_url_to_id : dm_url_to_id[v] = id}
               \cup (IF \E v \in DOMAIN dm_url_to_id : dm_url_to_id[v] = id
                     THEN {} ELSE {"none"}) :
          dm_url_to_id' = IF u = "none" THEN dm_url_to_id
                          ELSE DictPop(dm_url_to_id, u)
    /\ dm_active' = DictPop(dm_active, id)

\* DownloadTracker.add_download(url, id, downloader)
AddDownload(url, id, d) ==
    /\ DmCall
    /\ dm_url_to_id' = DictSet(dm_url_to_id, url, id)
    /\ dm_active' = DictSet(dm_active, id, d)
    /\ dm_reported' = {p \in dm_reported : p[1] # id}
    /\ UNCHANGED <<notDM, dm_cancelled, dm_stop_flag, dm_queue, dm_th,
                   dm_raised, dm_events>>

\* DownloadTracker.remove_download(id), called in one piece
TrackerRemove(id) ==
    /\ DmCall
    /\ IF id \in DOMAIN dm_active
       THEN RemoveTracked(id)
       ELSE UNCHANGED <<dm_url_to_id, dm_active>>
    /\ UNCHANGED <<notDM, dm_cancelled, dm_stop_flag, dm_queue, dm_th,
                   dm_raised, dm_reported, dm_events>>

\* DownloadManager.start_download: the task is queued, then
\* self.worker_thread, which __init__ never sets, is read: AttributeError,
\* logged and raised again before any downloader is tracked or started
StartDownload ==
    /\ DmCall
    /\ dm_queue' = dm_queue + 1
    /\ dm_raised' = dm_raised \cup {<<"start_download", "AttributeError">>}
    /\ UNCHANGED <<notDM, dm_url_to_id, dm_active, dm_cancelled, dm_stop_flag,
                   dm_th, dm_reported, dm_events>>

\* cancel_download(id) from its first line: get_downloader(id); the call
\* goes on to downloader.cancel() when there is a downloader and is over
\* when there is none
GetDownloader(c, id) ==
    IF id \in DOMAIN dm_active
    THEN [c EXCEPT !.pc = "cancel", !.id = id, !.d = dm_active[id]]
    ELSE IF c.op = "cancel_download" THEN NoCall
    ELSE [c EXCEPT !.pc = "loop"]

\* a thread calls DownloadManager.cancel_download(id)
CancelDownloadCall(t, id) ==
    /\ dm_th[t].pc = "idle"
    /\ DmCall
    /\ dm_th' = [dm_th EXCEPT
                    ![t] = GetDownloader([NoCall EXCEPT !.op = "cancel_download"], id)]
    /\ UNCHANGED <<notDM, dm_url_to_id, dm_active, dm_cancelled, dm_stop_flag,
                   dm_queue, dm_raised, dm_reported, dm_events>>

\* a thread calls DownloadManager.cancel_all() or shutdown(): the flag is
\* set and the ids to cancel are the active ones at this moment
CancelAllCall(t, op) ==
    /\ dm_th[t].pc = "idle"
    /\ DmCall
    /\ dm_stop_flag' = TRUE
    /\ dm_th' = [dm_th EXCEPT
                    ![t] = [NoCall EXCEPT !.op = op, !.pc = "loop",
                                          !.todo = get_active_downloads,
                                          !.snap = get_active_downloads]]
    /\ UNCHANGED <<notDM, dm_url_to_id, dm_active, dm_cancelled, dm_queue,
                   dm_raised, dm_reported, dm_events>>

\* cancel_all / shutdown: the head of the for loop.  With an id left,
\* cancel_download is called for it; with none, shutdown returns and
\* cancel_all clears the flag and returns
LoopStep(t) ==
    /\ dm_th[t].pc = "loop"
    /\ IF dm_th[t].todo = {}
       THEN /\ dm_th' = [dm_th EXCEPT ![t] = [NoCall EXCEPT !.op = dm_th[t].op,
                                                            !.snap = dm_th[t].snap]]
            /\ dm_stop_flag' = IF dm_th[t].op = "cancel_all" THEN FALSE
                               ELSE dm_stop_flag
       ELSE /\ \E id \in dm_th[t].todo :
                  dm_th' = [dm_th EXCEPT
                              ![t] = GetDownloader([dm_th[t] EXCEPT !.todo = @ \ {id}], id)]
            /\ UNCHANGED dm_stop_flag
    /\ UNCHANGED <<notDM, dm_url_to_id, dm_active, dm_cancelled, dm_queue,
                   dm_raised, dm_reported, dm_events, dm_calls>>

\* the call of thread t ends with an exception, which cancel_all and
\* shutdown let through
Fail(t, exc) ==
    /\ dm_raised' = dm_raised \cup {<<dm_th[t].op, exc>>}
    /\ dm_th' = [dm_th EXCEPT ![t] = [NoCall EXCEPT !.op = dm_th[t].op,
                                                    !.snap = dm_th[t].snap]]

\* cancel_download of thread t is over: the single call returns, the loop
\* of cancel_all / shutdown goes on
Done(t) ==
    dm_th' = [dm_th EXCEPT
                ![t] = IF dm_th[t].op = "cancel_download" THEN NoCall
                       ELSE [dm_th[t] EXCEPT !.pc = "loop", !.id = "none",
                                             !.d = "none"]]

\* cancel_download: downloader.cancel().  The regular Downloader calls its
\* progress callback unguarded, so what the callback raises leaves cancel()
\* with _cancelled already set
DoCancel(t) ==
    /\ dm_th[t].pc = "cancel"
    /\ dm_cancelled' = dm_cancelled \cup {dm_th[t].d}
    /\ \/ /\ dm_th' = [dm_th EXCEPT ![t].pc = "check"]
          /\ UNCHANGED dm_raised
       \/ /\ HasPrivateCallback(dm_th[t].d)
          /\ Fail(t, "CallbackError")
    /\ UNCHANGED <<notDM, dm_url_to_id, dm_active, dm_stop_flag, dm_queue,
                   dm_reported, dm_events, dm_calls>>

\* cancel_download: tracker.remove_download, the test
\* 'download_id in self._active_downloads'
RemoveCheck(t) ==
    /\ dm_th[t].pc = "check"
    /\ IF dm_th[t].id \in DOMAIN dm_active
       THEN dm_th' = [dm_th EXCEPT ![t].pc = "del"]
       ELSE Done(t)
    /\ UNCHANGED <<notDM, dm_url_to_id, dm_active, dm_cancelled, dm_stop_flag,
                   dm_queue, dm_raised, dm_reported, dm_events, dm_calls>>

\* cancel_download: tracker.remove_download, the deletions; 'del' of an id
\* another thread has deleted since the test is a KeyError
RemoveDel(t) ==
    /\ dm_th[t].pc = "del"
    /\ IF dm_th[t].id \in DOMAIN dm_active
       THEN /\ RemoveTracked(dm_th[t].id)
            /\ Done(t)
            /\ UNCHANGED dm_raised
       ELSE /\ Fail(t, "KeyError")
            /\ UNCHANGED <<dm_url_to_id, dm_active>>
    /\ UNCHANGED <<notDM, dm_cancelled, dm_stop_flag, dm_queue, dm_reported,
                   dm_events, dm_calls>>

\* DownloadManager._on_download_complete(download_id), where download_id is
\* id for the component "none" and id + "_video" / "_audio" otherwise.  A
\* component id whose base id is tracked returns at once; any other id
\* sends the final event when a downloader with a callback is tracked under
\* it, and is removed from the tracker.  Component ids are not tracked.
OnDownloadComplete(id, component) ==
    /\ DmCall
    /\ dm_reported' = IF component # "none" /\ id \in DOMAIN dm_active
                      THEN dm_reported \cup {<<id, component>>}
                      ELSE dm_reported
    /\ IF component = "none" /\ id \in DOMAIN dm_active
       THEN /\ dm_events' = IF HasPrivateCallback(dm_active[id])
                            THEN Append(dm_events, id) ELSE dm_events
            /\ RemoveTracked(id)
       ELSE UNCHANGED <<dm_url_to_id, dm_active, dm_events>>
    /\ UNCHANGED <<notDM, dm_cancelled, dm_stop_flag, dm_queue, dm_th,
                   dm_raised>>

DMNext ==
    \/ \E url \in Urls, id \in DmIds, d \in Downloaders : AddDownload(url, id, d)
    \/ \E id \in DmIds : TrackerRemove(id)
    \/ StartDownload
    \/ \E t \in Callers, id \in DmIds : CancelDownloadCall(t, id)
    \/ \E t \in Callers, op \in {"cancel_all", "shutdown"} : CancelAllCall(t, op)
    \/ \E t \in Callers : LoopStep(t)
    \/ \E t \in Callers : DoCancel(t)
    \/ \E t \in Callers : RemoveCheck(t)
    \/ \E t \in Callers : RemoveDel(t)
    \/ \E id \in DmIds, c \in {"none", "video", "audio"} : OnDownloadComplete(id, c)

\* ------------------------------------------------ the url-keyed download manager
\* DownloadManager.__init__; a downloader is named by its number of creation
LMInit ==
    /\ lm_active = <<>>
    /\ lm_running = {}
    /\ lm_cancelled = {}
    /\ lm_made = 0

\* DownloadManager.download(url) and download_youtube(url): a new
\* downloader is stored under the url, whatever is stored there, and is
\* started; when start() raises the entry stays
LMDownload(url, started) ==
    /\ lm_made < MaxDownloaders
    /\ lm_made' = lm_made + 1
    /\ lm_active' = DictSet(lm_active, url, lm_made + 1)
    /\ lm_running' = IF started THEN lm_running \cup {lm_made + 1} ELSE lm_running
    /\ UNCHANGED <<notLM, lm_cancelled>>

\* the download thread of a running downloader ends; the manager is not
\* told and keeps its entry
LMFinish(d) ==
    /\ d \in lm_running
    /\ lm_running' = lm_running \ {d}
    /\ UNCHANGED <<notLM, lm_active, lm_cancelled, lm_made>>

\* DownloadManager.cancel_download(download_id): the downloader stored under
\* the id is cancelled and its entry popped; an id with no entry returns
LMCancelDownload(url) ==
    /\ url \in DOMAIN lm_active
    /\ lm_cancelled' = lm_cancelled \cup {lm_active[url]}
    /\ lm_running' = lm_running \ {lm_active[url]}
    /\ lm_active' = DictPop(lm_active, url)
    /\ UNCHANGED <<notLM, lm_made>>

LMNext ==
    \/ \E url \in Urls, started \in BOOLEAN : LMDownload(url, started)
    \/ \E d \in 1..MaxDownloaders : LMFinish(d)
    \/ \E url \in Urls : LMCancelDownload(url)

\* ------------------------------------------------ the regular Downloader
Cancellers == {"c1", "c2"}

\* Downloader.__init__, followed or not by set_progress_callback; a
\* completion callback is set
RDInit ==
    /\ rd_state = "QUEUED"
    /\ rd_pc = "idle"
    /\ rd_obj = "none"
    /\ rd_cancelled = FALSE
    /\ rd_lock = "none"
    /\ rd_cpc = [c \in Cancellers |-> "idle"]
    /\ rd_callback \in BOOLEAN
    /\ rd_events = <<>>
    /\ rd_completions = 0
    /\ rd_cancels = 0

\* start() ends with an exception: state ERROR (184-187)
RDRaise ==
    /\ rd_state' = "ERROR"
    /\ rd_pc' = "done"

\* start() up to dl.start(blocking=False); making the SmartDL object or
\* the file name can raise
RDStart ==
    /\ rd_pc = "idle"
    /\ \/ /\ rd_state' = "DOWNLOADING"
          /\ rd_obj' = "downloading"
          /\ rd_pc' = "loop"
       \/ /\ RDRaise
          /\ UNCHANGED rd_obj
    /\ UNCHANGED <<notRD, rd_cancelled, rd_lock, rd_cpc, rd_callback,
                   rd_events, rd_completions, rd_cancels>>

\* SmartDL.isFinished
RDIsFinished == rd_obj \in {"ok", "failed"}

\* the fetch of the SmartDL object ends, well or not
RDObjFinishes(result) ==
    /\ rd_obj = "downloading"
    /\ rd_obj' = result
    /\ UNCHANGED <<notRD, rd_state, rd_pc, rd_cancelled, rd_lock, rd_cpc,
                   rd_callback, rd_events, rd_completions, rd_cancels>>

\* the test of the monitoring loop (161)
RDLoopTest ==
    /\ rd_pc = "loop"
    /\ rd_pc' = IF ~RDIsFinished /\ ~rd_cancelled THEN "body" ELSE "check"
    /\ UNCHANGED <<notRD, rd_state, rd_obj, rd_cancelled, rd_lock, rd_cpc,
                   rd_callback, rd_events, rd_completions, rd_cancels>>

\* the body of the monitoring loop (162-164): with the status
\* "downloading" progress_callback(dl) is called, which reads
\* self._progress_hook, an attribute the class does not have; with any
\* other status the loop sleeps and tests again
RDLoopBody(status) ==
    /\ rd_pc = "body"
    /\ IF status = "downloading"
       THEN RDRaise
       ELSE /\ rd_pc' = "loop"
            /\ UNCHANGED rd_state
    /\ UNCHANGED <<notRD, rd_obj, rd_cancelled, rd_lock, rd_cpc, rd_callback,
                   rd_events, rd_completions, rd_cancels>>

\* 'if self._cancelled' after the loop (167-170)
RDCheckCancelled ==
    /\ rd_pc = "check"
    /\ IF rd_cancelled
       THEN /\ rd_state' = "CANCELLED"
            /\ rd_pc' = "done"
       ELSE /\ rd_pc' = "wait"
            /\ UNCHANGED rd_state
    /\ UNCHANGED <<notRD, rd_obj, rd_cancelled, rd_lock, rd_cpc, rd_callback,
                   rd_events, rd_completions, rd_cancels>>

\* dl.wait(raise_exceptions=True) and the final-state update (173-182)
RDFinalState ==
    /\ rd_pc = "wait"
    /\ RDIsFinished
    /\ rd_pc' = "done"
    /\ IF rd_obj = "ok"
       THEN /\ rd_state' = "COMPLETED"
            /\ rd_completions' = rd_completions + 1
       ELSE /\ rd_state' = "ERROR"
            /\ UNCHANGED rd_completions
    /\ UNCHANGED <<notRD, rd_obj, rd_cancelled, rd_lock, rd_cpc, rd_callback,
                   rd_events, rd_cancels>>

\* cancel() with no mutex: the block is entered whoever is in it
RDLockFreeAlways == TRUE

\* the mutex of 'with self._lock' is free
RDLockFree == rd_lock = "none"

\* cancel() or stop() is called by thread c and enters 'with self._lock'
RDCancelEnter(c) ==
    /\ rd_cpc[c] = "idle"
    /\ rd_cancels < MaxCancelCalls
    /\ RDLockFree
    /\ rd_cancels' = rd_cancels + 1
    /\ rd_lock' = c
    /\ rd_cpc' = [rd_cpc EXCEPT ![c] = "test"]
    /\ UNCHANGED <<notRD, rd_state, rd_pc, rd_obj, rd_cancelled, rd_callback,
                   rd_events, rd_completions>>

\* the lock is released by the thread that holds it
RDRelease(c) ==
    rd_lock' = IF rd_lock = c THEN "none" ELSE rd_lock

\* cancel(): 'if not self._cancelled' (194); a cancelled downloader leaves
\* the block at once
RDCancelTest(c) ==
    /\ rd_cpc[c] = "test"
    /\ IF rd_cancelled
       THEN /\ rd_cpc' = [rd_cpc EXCEPT ![c] = "idle"]
            /\ RDRelease(c)
       ELSE /\ rd_cpc' = [rd_cpc EXCEPT ![c] = "set"]
            /\ UNCHANGED rd_lock
    /\ UNCHANGED <<notRD, rd_state, rd_pc, rd_obj, rd_cancelled, rd_callback,
                   rd_events, rd_completions, rd_cancels>>

\* cancel(): self._cancelled = True (195)
RDCancelSet(c) ==
    /\ rd_cpc[c] = "set"
    /\ rd_cancelled' = TRUE
    /\ rd_cpc' = [rd_cpc EXCEPT ![c] = "notify"]
    /\ UNCHANGED <<notRD, rd_state, rd_pc, rd_obj, rd_lock, rd_callback,
                   rd_events, rd_completions, rd_cancels>>

\* cancel(): the Cancelled event goes to the progress callback when one is
\* set (199-200), then the clean-up runs and the lock is released
\* (202-218); what the callback raises leaves the block without clean-up
RDCancelNotify(c, raises) ==
    /\ rd_cpc[c] = "notify"
    /\ raises => rd_callback
    /\ rd_events' = IF rd_callback THEN Append(rd_events, "CANCELLED")
                    ELSE rd_events
    /\ rd_cpc' = [rd_cpc EXCEPT ![c] = "idle"]
    /\ RDRelease(c)
    /\ UNCHANGED <<notRD, rd_state, rd_pc, rd_obj, rd_cancelled, rd_callback,
                   rd_completions, rd_cancels>>

RDNext ==
    \/ RDStart
    \/ \E result \in {"ok", "failed"} : RDObjFinishes(result)
    \/ RDLoopTest
    \/ \E status \in {"downloading", "ready"} : RDLoopBody(status)
    \/ RDCheckCancelled
    \/ RDFinalState
    \/ \E c \in Cancellers : RDCancelEnter(c)
    \/ \E c \in Cancellers : RDCancelTest(c)
    \/ \E c \in Cancellers : RDCancelSet(c)
    \/ \E c \in Cancellers, raises \in BOOLEAN : RDCancelNotify(c, raises)

\* ------------------------------------------------ the metadata calls
\* the metadata of one download_id is followed
MetaKeys == {"k1", "k2"}

\* StateManager.__init__: _metadata is empty
MDInit ==
    /\ md_heap = <<>>
    /\ md_stored = 0
    /\ md_th = [t \in Callers |-> [pc |-> "idle", meta |-> 0, key |-> "none"]]
    /\ md_done = {}
    /\ md_removed = FALSE
    /\ md_calls = 0

\* StateManager.get_metadata(download_id, key), as whether the key is set
get_metadata(key) == md_stored # 0 /\ key \in md_heap[md_stored]

\* set_metadata: meta = self._metadata.get(download_id, {}).  The dict
\* stored for the download is returned itself, not a copy; with none
\* stored the default, a new empty dict, is returned
MDGet(t, key) ==
    /\ md_th[t].pc = "idle"
    /\ md_calls < MaxMetaCalls
    /\ md_calls' = md_calls + 1
    /\ md_removed' = FALSE
    /\ IF md_stored # 0
       THEN /\ md_th' = [md_th EXCEPT ![t] = [pc |-> "got", meta |-> md_stored,
                                               key |-> key]]
            /\ UNCHANGED md_heap
       ELSE /\ md_heap' = Append(md_heap, {})
            /\ md_th' = [md_th EXCEPT ![t] = [pc |-> "got",
                                               meta |-> Len(md_heap) + 1,
                                               key |-> key]]
    /\ UNCHANGED <<notMD, md_stored, md_done>>

\* set_metadata: meta[key] = value
MDMutate(t) ==
    /\ md_th[t].pc = "got"
    /\ md_heap' = [md_heap EXCEPT ![md_th[t].meta] = @ \cup {md_th[t].key}]
    /\ md_th' = [md_th EXCEPT ![t].pc = "mutated"]
    /\ UNCHANGED <<notMD, md_stored, md_done, md_removed, md_calls>>

\* set_metadata: self._metadata.set(download_id, meta), and the return
MDSet(t) ==
    /\ md_th[t].pc = "mutated"
    /\ md_stored' = md_th[t].meta
    /\ md_done' = md_done \cup {md_th[t].key}
    /\ md_th' = [md_th EXCEPT ![t] = [pc |-> "idle", meta |-> 0, key |-> "none"]]
    /\ UNCHANGED <<notMD, md_heap, md_removed, md_calls>>

\* remove_download: self._metadata.pop(download_id, None), under the
\* manager's lock, which set_metadata does not take
MDRemove ==
    /\ md_calls < MaxMetaCalls
    /\ md_calls' = md_calls + 1
    /\ md_stored' = 0
    /\ md_done' = {}
    /\ md_removed' = TRUE
    /\ UNCHANGED <<notMD, md_heap, md_th>>

MDNext ==
    \/ \E t \in Callers, key \in MetaKeys : MDGet(t, key)
    \/ \E t \in Callers : MDMutate(t)
    \/ \E t \in Callers : MDSet(t)
    \/ MDRemove

\* ------------------------------------------------ the path naming
Sessions == 1..MaxSessions

\* no YouTubeDownloader has been made for any session
PTInit ==
    /\ pt_sessions = [s \in Sessions |->
                        [pc |-> "none", url |-> "none", audio_only |-> FALSE,
                         download_id |-> 0, paths |-> {}]]
    /\ pt_issued = 0

\* uuid.uuid4() and tempfile's directory name: a name not issued before.
\* That two draws never coincide is taken from the two libraries.
uuid4 == pt_issued + 1

\* a path as its directory (0 is the destination directory, any other
\* number a temporary directory), the generated part and the fixed part
\* of its name
FilePath(dir, base, name) == [dir |-> dir, base |-> base, name |-> name]

\* the output path named after the video, the same for every session of
\* one url
OutputPathByTitle(url, base) == FilePath(0, 0, url)

\* output_path = destination / f"{base_name}_final.mp4"
OutputPath(url, base) == FilePath(0, base, "final.mp4")

\* YouTubeDownloader.__init__: self.download_id = str(uuid.uuid4())
PTCreate(s, url, mode) ==
    /\ pt_sessions[s].pc = "none"
    /\ pt_sessions' = [pt_sessions EXCEPT
                          ![s] = [pc |-> "created", url |-> url,
                                  audio_only |-> mode,
                                  download_id |-> uuid4, paths |-> {}]]
    /\ pt_issued' = pt_issued + 1
    /\ UNCHANGED notPT

\* _download: base_name = str(uuid.uuid4()) and the three paths made of
\* it; audio-only mode fetches to output_path alone
PTDownload(s) ==
    /\ pt_sessions[s].pc = "created"
    /\ pt_sessions' = [pt_sessions EXCEPT
                          ![s].pc = "fetching",
                          ![s].paths =
                              IF pt_sessions[s].audio_only
                              THEN {OutputPath(pt_sessions[s].url, uuid4)}
                              ELSE {OutputPath(pt_sessions[s].url, uuid4),
                                    FilePath(0, uuid4, "video.mp4"),
                                    FilePath(0, uuid4, "audio.m4a")}]
    /\ pt_issued' = pt_issued + 1
    /\ UNCHANGED notPT

\* _download_video: tempfile.TemporaryDirectory() and, in it,
\* temp_combined = f"combined_{self.download_id}.mp4"
PTDownloadVideo(s) ==
    /\ pt_sessions[s].pc = "fetching"
    /\ ~pt_sessions[s].audio_only
    /\ pt_sessions' = [pt_sessions EXCEPT
                          ![s].pc = "muxing",
                          ![s].paths = @ \cup {FilePath(uuid4, pt_sessions[s].download_id,
                                                        "combined.mp4")}]
    /\ pt_issued' = pt_issued + 1
    /\ UNCHANGED notPT

\* the session is over
PTEnd(s) ==
    /\ pt_sessions[s].pc \in {"fetching", "muxing"}
    /\ pt_sessions' = [pt_sessions EXCEPT ![s].pc = "done"]
    /\ UNCHANGED <<notPT, pt_issued>>

PTNext ==
    \/ \E s \in Sessions, url \in Urls, mode \in BOOLEAN :
          PTCreate(s, url, mode)
    \/ \E s \in Sessions : PTDownload(s)
    \/ \E s \in Sessions : PTDownloadVideo(s)
    \/ \E s \in Sessions : PTEnd(s)

\* ------------------------------------------------ the specifications
\* no session is running
YTIdle ==
    /\ hasV = TRUE
    /\ video_format = FALSE
    /\ audio_format = FALSE
    /\ pc = "idle"
    /\ tpc = [t \in Threads |-> "unstarted"]
    /\ chunks = [t \in Threads |-> 0]
    /\ fs = [p \in Paths |-> "none"]
    /\ events = <<>>
    /\ stop_flag = FALSE
    /\ proc = "none"
    /\ returncode = 0
    /\ muxLines = 0
    /\ err_site = "none"
    /\ outcome = "none"
    /\ cancel_race = FALSE
    /\ audio_only = FALSE
    /\ duration = {}
    /\ mux_out = "none"
    /\ cancel_seen = {}
    /\ after_cancel = [t \in Threads |-> 0]

\* the mux step has not begun
MuxIdle ==
    /\ now = 0
    /\ last_progress_update = 0
    /\ time_processed = {}
    /\ mx_progress = <<>>

\* no Downloader has been made
DLIdle ==
    /\ dl_pc = "idle"
    /\ dl_obj = "none"
    /\ dl_cancelled = FALSE
    /\ dl_error_message = "None"
    /\ dl_completed = FALSE
    /\ dl_exc = "none"
    /\ dl_events = <<>>
    /\ dl_polls = 0
    /\ dl_size = 0

\* no fetch thread has been started
CBIdle ==
    /\ cb_pc = [t \in Threads |-> "unstarted"]
    /\ cb_calls = [t \in Threads |-> 0]
    /\ cb_log = <<>>

\* no DownloadManager has been made
DMIdle ==
    /\ dm_url_to_id = <<>>
    /\ dm_active = <<>>
    /\ dm_cancelled = {}
    /\ dm_stop_flag = FALSE
    /\ dm_queue = 0
    /\ dm_th = <<>>
    /\ dm_raised = {}
    /\ dm_reported = {}
    /\ dm_events = <<>>
    /\ dm_calls = 0

\* no url-keyed DownloadManager has been made
LMIdle ==
    /\ lm_active = <<>>
    /\ lm_running = {}
    /\ lm_cancelled = {}
    /\ lm_made = 0

\* no regular Downloader has been made
RDIdle ==
    /\ rd_state = "QUEUED"
    /\ rd_pc = "idle"
    /\ rd_obj = "none"
    /\ rd_cancelled = FALSE
    /\ rd_lock = "none"
    /\ rd_cpc = <<>>
    /\ rd_callback = FALSE
    /\ rd_events = <<>>
    /\ rd_completions = 0
    /\ rd_cancels = 0

\* no metadata call has been made
MDIdle ==
    /\ md_heap = <<>>
    /\ md_stored = 0
    /\ md_th = <<>>
    /\ md_done = {}
    /\ md_removed = FALSE
    /\ md_calls = 0

\* no session has been named
PTIdle ==
    /\ pt_sessions = <<>>
    /\ pt_issued = 0

\* no formats have been listed
SelIdle ==
    /\ formats = <<>>
    /\ sel_audio_only = FALSE
    /\ sel_quality = [highest |-> TRUE, height |-> 0]
    /\ sel_abr = 0
    /\ sel_video = {}
    /\ sel_audio = {}
    /\ sel_pc = "idle"
    /\ sel_started = {}
    /\ sel_outcome = "none"

\* the managers and the regular Downloader are idle
LateIdle == DMIdle /\ LMIdle /\ RDIdle /\ MDIdle /\ PTIdle

\* the components added later are idle
OtherIdle == DLIdle /\ CBIdle /\ SelIdle /\ LateIdle

\* no progress_hook is followed
HookIdle ==
    /\ hk_component = "video"
    /\ hk_downloaded = 0
    /\ hk_done = FALSE
    /\ hk_calls = 0
    /\ hk_events = <<>>

Init == YTInit /\ SMInit /\ MuxIdle /\ HookIdle /\ OtherIdle

Spec == Init /\ [][Next]_vars

InitSM == YTIdle /\ SMInit /\ MuxIdle /\ HookIdle /\ OtherIdle

SpecSM == InitSM /\ [][SMNext]_vars

InitMux == MuxStarted /\ SMInit /\ MuxIdle /\ HookIdle /\ OtherIdle

SpecMux == InitMux /\ [][MuxNext]_vars

InitHook == YTIdle /\ SMInit /\ MuxIdle /\ HookInit /\ OtherIdle

\* every component of the first four specifications is idle
CoreIdle == YTIdle /\ SMInit /\ MuxIdle /\ HookIdle

InitDL == CoreIdle /\ DLInit /\ CBIdle /\ SelIdle /\ LateIdle

SpecDL == InitDL /\ [][DLNext]_vars

InitCB == CoreIdle /\ DLIdle /\ CBInit /\ SelIdle /\ LateIdle

SpecCB == InitCB /\ [][CBNext]_vars

InitSel == CoreIdle /\ DLIdle /\ CBIdle /\ SelInit /\ LateIdle

SpecSel == InitSel /\ [][SelNext]_vars

InitDM == CoreIdle /\ DLIdle /\ CBIdle /\ SelIdle /\ DMInit /\ LMIdle /\ RDIdle /\ MDIdle /\ PTIdle

SpecDM == InitDM /\ [][DMNext]_vars

\* the download manager where a call that has begun runs to its end; no
\* caller is obliged to make a further call
SpecDMFair ==
    SpecDM /\ \A t \in Callers :
                WF_vars(LoopStep(t) \/ DoCancel(t) \/ RemoveCheck(t) \/ RemoveDel(t))

InitLM == CoreIdle /\ DLIdle /\ CBIdle /\ SelIdle /\ DMIdle /\ LMInit /\ RDIdle /\ MDIdle /\ PTIdle

SpecLM == InitLM /\ [][LMNext]_vars

InitRD == CoreIdle /\ DLIdle /\ CBIdle /\ SelIdle /\ DMIdle /\ LMIdle /\ RDInit /\ MDIdle /\ PTIdle

SpecRD == InitRD /\ [][RDNext]_vars

InitMD == CoreIdle /\ DLIdle /\ CBIdle /\ SelIdle /\ DMIdle /\ LMIdle /\ RDIdle /\ MDInit /\ PTIdle

SpecMD == InitMD /\ [][MDNext]_vars

InitPT == CoreIdle /\ DLIdle /\ CBIdle /\ SelIdle /\ DMIdle /\ LMIdle /\ RDIdle /\ MDIdle /\ PTInit

SpecPT == InitPT /\ [][PTNext]_vars

SpecHook == InitHook /\ [][HookNext]_vars

\* ------------------------------------------------ properties of the session
\* _download has returned or raised
Ended == pc \in {"done", "raised"}

\* the session selected both a video and an audio stream
Composite == video_format /\ audio_format

\* the positions of the events delivered with a terminal state
TerminalEvents == {i \in 1..Len(events) : events[i].state \in TerminalStates}

MuxCompletedDelivered ==
    \E i \in 1..Len(events) : events[i] = Event("muxing", "COMPLETED")

\* C1: once a composite session has ended, in any outcome, none of its
\* intermediate files (video, audio, combined) exists, and the final file
\* exists exactly when the outcome is success.
C1_NoIntermediateFilesAtEnd ==
    (Ended /\ Composite) =>
        /\ \A p \in TempPaths : ~Exists(p)
        /\ Exists("final") <=> outcome = "success"

\* C2: when exactly one of the two fetch threads failed and the other
\* succeeded, the session ends, after both have settled, in an error, and
\* the final path never holds a single elementary stream.
C2_PartialPairEndsInError ==
    (Composite /\ \E t, u \in Threads : tpc[t] = "failed" /\ tpc[u] = "ok") =>
        /\ fs["final"] \notin {"video", "audio"}
        /\ Ended => (outcome # "success" /\ \A t \in Threads : Settled(t))

\* C3: when cancel() ran after both fetches succeeded and before the mux
\* subprocess was started, the subprocess is never started, the session ends
\* as Cancelled and both fetched files are removed.
C3_CancelBeforeMuxStopsSession ==
    cancel_race =>
        /\ proc = "none"
        /\ Ended => /\ outcome = "Cancelled"
                    /\ ~Exists("video")
                    /\ ~Exists("audio")

\* C4: when the session has ended, exactly one event with a terminal state
\* (COMPLETED, ERROR, CANCELLED) has been delivered, and it is the last one.
C4_ExactlyOneTerminalEventLast ==
    Ended => TerminalEvents = {Len(events)} /\ Len(events) > 0

\* C7: the driver is past its join (it has started the mux or the move, or
\* has ended) only when every fetch thread it started has terminated, by
\* returning or by failing.
C7_DriverWaitsForAllFetches ==
    (pc \notin {"extract", "start_video", "start_audio", "join"}
        \/ proc # "none" \/ Exists("final") \/ Exists("combined"))
    => \A t \in Threads : Settled(t)

\* the driver is past the join of a session where one fetch failed and the
\* other succeeded
C7_Witness ==
    /\ pc = "branch"
    /\ tpc["video"] = "ok"
    /\ tpc["audio"] = "failed"

\* C8: whenever the driver delivers the session's event with a terminal
\* state, no temp file of the session exists any more.
C8_TempGoneBeforeTerminalEvent ==
    [][(/\ Len(events') > Len(events)
        /\ events'[Len(events')].component \notin Threads
        /\ events'[Len(events')].state \in TerminalStates)
        => \A p \in TempPaths : fs'[p] = "none"]_vars

\* C9: the COMPLETED event of the mux step is delivered only once the
\* combined file has been verified to exist and to be non-empty, and a
\* session that delivered it never ends with the missing-output or the
\* empty-output error.
C9_CompletedOnlyAfterVerification ==
    /\ MuxCompletedDelivered => pc \in {"move", "cleanup", "done"}
    /\ outcome \in {"OutputNotFound", "OutputEmpty"} => ~MuxCompletedDelivered

\* C10: after a non-zero exit code the session ends with the MuxFailed
\* error, whatever the output file is; the missing-output and empty-output
\* checks decide only after exit code 0.
C10_NonZeroExitIsMuxFailed ==
    /\ (Ended /\ proc = "exited" /\ returncode # 0) => outcome = "MuxFailed"
    /\ err_site \in {"missing", "empty"} => returncode = 0

\* C11: when the mux subprocess has exited with code 1 and left no output
\* file, the error the session ends with is the missing-output error, not
\* the MuxFailed and not the empty-output error (stated for a url with "v=",
\* where the error raised is the error delivered).
C11_ExitOneNoOutputIsMissing ==
    [][(/\ hasV
        /\ pc = "mux_wait"
        /\ returncode = 1
        /\ fs["combined"] = "none"
        /\ pc' = "raised")
        => outcome' = "OutputNotFound"]_vars

\* C12: when the status stream had no parsable Duration line, the driver is
\* past process.wait() only once the subprocess has exited, no error of the
\* session comes from the duration, and after exit code 0 with a non-empty
\* output file the session ends in success with the muxed file at the final
\* path.
C12_NoDurationIsNotFatal ==
    (proc # "none" /\ pc # "mux_duration" /\ duration = {}) =>
        /\ pc \in {"verify", "move", "cleanup", "done"} => proc = "exited"
        /\ pc = "raised" => err_site \in {"mux_exit", "missing", "empty"}
        /\ (Ended /\ returncode = 0 /\ mux_out = "muxed") =>
              /\ outcome = "success"
              /\ fs["final"] = "muxed"

\* a session without a parsed duration has ended after exit code 0 and a
\* non-empty output file
C12_Witness ==
    /\ pc = "done"
    /\ proc = "exited"
    /\ duration = {}
    /\ returncode = 0
    /\ mux_out = "muxed"

C16_MuxPercentClamped ==
    [][/\ (/\ muxLines' = muxLines + 1
           /\ time_processed' # {}
           /\ DurationTruthy
           /\ (CHOOSE t \in time_processed' : TRUE) > DurationValue
           /\ now - last_progress_update >= ThrottleTicks)
          => /\ Len(mx_progress') = Len(mx_progress) + 1
             /\ mx_progress'[Len(mx_progress')].progress = 100
       /\ \A i \in 1..Len(mx_progress') :
             mx_progress'[i].progress \in 0..100]_vars

HasPercent(e) == e.progress \in Int

\* C14: an event of progress_hook made from a callback without a known
\* total size (total_bytes and total_bytes_estimate absent or 0) carries no
\* percent value.
C14_UnknownTotalHasNoPercent ==
    \A i \in 1..Len(hk_events) :
        hk_events[i].total_size = 0 => ~HasPercent(hk_events[i])

\* C15: the percent values of consecutive DOWNLOADING events of one
\* component do not go down, whatever totals the callbacks report.
C15_PercentNonDecreasing ==
    \A i \in 1..(Len(hk_events) - 1) :
        (hk_events[i].state = "DOWNLOADING"
            /\ hk_events[i + 1].state = "DOWNLOADING")
        => hk_events[i + 1].progress >= hk_events[i].progress

FetchFailure(t) == IF t = "video" THEN "VideoFetchError" ELSE "AudioFetchError"

\* C19: a session one of whose fetch threads failed ends, after both have
\* settled, with that thread's error, and with the video thread's error when
\* both failed.
C19_FirstFetchFailureReturned ==
    (hasV /\ Ended /\ \E t \in Threads : tpc[t] = "failed") =>
        /\ \A t \in Threads : Settled(t)
        /\ outcome = IF tpc["video"] = "failed" THEN FetchFailure("video")
                     ELSE FetchFailure("audio")

\* C20: once cancel() has set the flag while a fetch was downloading, that
\* fetch makes at most one more 'downloading' callback, and a session whose
\* fetch made a callback with the flag set ends as Cancelled.
C20_FetchStopsAfterCancel ==
    \A t \in Threads :
        /\ after_cancel[t] <= 1
        /\ (Ended /\ after_cancel[t] > 0) => outcome = "Cancelled"

\* C21: when cancel() ran while the mux subprocess was running, the
\* subprocess does not run to a reported completion: the session ends as
\* Cancelled, with no combined file and no final file left.
C21_CancelDuringMuxKills ==
    "muxing" \in cancel_seen =>
        /\ pc \notin {"verify", "move", "cleanup"}
        /\ Ended => /\ outcome = "Cancelled"
                    /\ ~Exists("combined")
                    /\ ~Exists("final")

\* ------------------------------------------------ properties of the Downloader
\* C22: a download that ended because cancel() was called is reported as
\* cancelled: it has no error_message, no 'Download failed' event was
\* delivered for it, and get_download_status does not say 'error'.
C22_CancelIsNotAnError ==
    dl_exc = "CancellationError" =>
        /\ dl_error_message = "None"
        /\ \A i \in 1..Len(dl_events) : dl_events[i].text # "Download failed"
        /\ get_download_status = "cancelled"

\* ------------------------------------------------ properties of the progress callback
\* C24: the progress callback of a session is never executing in its two
\* fetch threads at once.
C24_CallbackOneThreadAtATime == Cardinality(InCallback) <= 1

\* ------------------------------------------------ properties of the format selection
\* the formats of the list with a video codec alone, with an audio codec
\* alone, and with both
VideoOnlyIn(fs_) == {fs_[i] : i \in {j \in 1..Len(fs_) : fs_[j].vcodec /\ ~fs_[j].acodec}}
AudioOnlyIn(fs_) == {fs_[i] : i \in {j \in 1..Len(fs_) : fs_[j].acodec /\ ~fs_[j].vcodec}}
CombinedIn(fs_) == {fs_[i] : i \in {j \in 1..Len(fs_) : fs_[j].vcodec /\ fs_[j].acodec}}

\* _extract_formats has returned
Selected == sel_pc \in {"selected", "dispatched"}

\* the height of f does not exceed the target of the preferred quality
WithinTarget(f) == sel_quality.highest \/ f.height <= sel_quality.height

Abs(n) == IF n < 0 THEN 0 - n ELSE n

\* C25: in video mode, when some video-only format of the list has a height
\* within the target, a video format is selected, its height is within the
\* target and no video-only format within the target is taller.
C25_GreatestHeightWithinTarget ==
    (/\ Selected
     /\ ~sel_audio_only
     /\ \E f \in VideoOnlyIn(formats) : WithinTarget(f))
    => /\ sel_video # {}
       /\ \A v \in sel_video :
             /\ WithinTarget(v)
             /\ \A f \in VideoOnlyIn(formats) :
                   WithinTarget(f) => f.height <= v.height

\* video-only formats of 360 and 720 are listed, the target is 480 and the
\* format of height 360 was selected
C25_Witness ==
    /\ Selected
    /\ ~sel_audio_only
    /\ sel_quality = [highest |-> FALSE, height |-> 480]
    /\ {f.height : f \in VideoOnlyIn(formats)} = {360, 720}
    /\ sel_video = {Format(TRUE, FALSE, 360, 0)}

\* C26: in video mode, when video-only formats are listed and none has a
\* height within the target, the tallest video-only format is selected and
\* its fetch is started. Stated for lists without a combined format, which
\* the selection would take for a video format (C29).
C26_FallbackToTallest ==
    (/\ Selected
     /\ ~sel_audio_only
     /\ VideoOnlyIn(formats) # {}
     /\ CombinedIn(formats) = {}
     /\ \A f \in VideoOnlyIn(formats) : ~WithinTarget(f))
    => /\ sel_video # {}
       /\ \A v \in sel_video :
             /\ v \in VideoOnlyIn(formats)
             /\ \A f \in VideoOnlyIn(formats) : f.height <= v.height
       /\ sel_pc = "dispatched" => "video" \in sel_started

\* C27: in audio-only mode no video format is selected and no video fetch
\* is started, whatever the list of formats holds.
C27_AudioOnlySelectsNoVideo ==
    sel_audio_only => /\ sel_video = {}
                      /\ "video" \notin sel_started

\* an audio-only selection over a list with a video-only format has ended
\* with the audio fetch alone
C27_Witness ==
    /\ sel_audio_only
    /\ sel_pc = "dispatched"
    /\ VideoOnlyIn(formats) # {}
    /\ sel_video = {}
    /\ sel_started = {"audio"}

\* C28: in video mode, when audio-only formats are listed, the selected
\* audio format is an audio-only format whose bitrate is as close to the
\* target bitrate as that of any audio-only format of the list.
C28_AudioClosestToTarget ==
    (/\ Selected
     /\ ~sel_audio_only
     /\ AudioOnlyIn(formats) # {})
    => /\ sel_audio # {}
       /\ \A a \in sel_audio :
             /\ a \in AudioOnlyIn(formats)
             /\ \A f \in AudioOnlyIn(formats) :
                   Abs(a.abr - sel_abr) <= Abs(f.abr - sel_abr)

\* C29: the selected video format has a video codec and no audio codec.
C29_VideoIsNeverCombined ==
    \A v \in sel_video : v.vcodec /\ ~v.acodec

\* the formats the mode needs are missing from the list
RequiredSubsetEmpty ==
    \/ AudioOnlyIn(formats) = {}
    \/ ~sel_audio_only /\ VideoOnlyIn(formats) = {}

\* C30: when the formats the mode needs are missing from the list, the
\* session ends with NoSuitableFormat and no fetch is started.
C30_EmptySubsetIsNoSuitableFormat ==
    (sel_pc = "dispatched" /\ RequiredSubsetEmpty)
    => /\ sel_outcome = "NoSuitableFormat"
       /\ sel_started = {}

\* ------------------------------------------------ properties of the download manager
\* the step with which a cancel_all call of thread t ends, by a return or
\* by an exception
CancelAllEnds(t) ==
    /\ dm_th[t].op = "cancel_all"
    /\ dm_th[t].pc # "idle"
    /\ dm_th'[t].pc = "idle"

\* the number of final events sent for id
FinalEvents(id) == Cardinality({k \in 1..Len(dm_events) : dm_events[k] = id})

\* both components of the download tracked under id were reported complete
BothReported(id) ==
    /\ id \in DOMAIN dm_active
    /\ {<<id, "video">>, <<id, "audio">>} \subseteq dm_reported

\* C35: after any sequence of add_download and remove_download calls a url
\* is active exactly when an active id is registered for it: every mapped
\* url maps to an active id and every active id has a url that maps to it.
C35_UrlMapMatchesActive ==
    /\ \A url \in Urls :
          is_url_active(url) => dm_url_to_id[url] \in get_active_downloads
    /\ \A id \in get_active_downloads :
          \E url \in Urls : is_url_active(url) /\ dm_url_to_id[url] = id

\* C32: under every interleaving of the manager's calls from several
\* threads, two cancels of one id included, no call fails because another
\* thread changed the tracker in between: no call ends with a KeyError.
C32_NoCallFailsByInterleaving ==
    \A p \in dm_raised : p[2] # "KeyError"

\* C37: when cancel_all returns or raises, _stop_flag is False again and
\* no download that was active when it was called is active.
C37_CancelAllRestores ==
    [][\A t \in Callers :
          CancelAllEnds(t)
          => /\ dm_stop_flag' = FALSE
             /\ dm_th[t].snap \cap DOMAIN dm_active' = {}]_vars

\* C33: a completion report for one component of a tracked download never
\* removes it from the tracker, and once both components were reported the
\* download is eventually removed and one final Completed event is sent.
C33_BothComponentsComplete ==
    /\ [][\A id \in DmIds :
            (/\ id \in DOMAIN dm_active
             /\ dm_reported' # dm_reported
             /\ ~BothReported(id)')
            => id \in DOMAIN dm_active']_vars
    /\ \A id \in DmIds :
          BothReported(id)
          ~> (id \notin DOMAIN dm_active /\ FinalEvents(id) = 1)

\* C36: every downloader that was started and has neither finished nor been
\* cancelled is stored in the manager under an id, so that cancel_download
\* reaches it; a second download for an active url never leaves the first
\* one running with no entry.
C36_RunningIsCancellable ==
    \A d \in lm_running : \E url \in DOMAIN lm_active : lm_active[url] = d

\* ------------------------------------------------ properties of the regular Downloader
\* the Cancelled event was delivered to the progress callback
CancelledDelivered == \E k \in 1..Len(rd_events) : rd_events[k] = "CANCELLED"

\* C34: once cancel() has delivered the Cancelled event, the state never
\* becomes COMPLETED and the completion callback is never invoked.
C34_NoCompletionAfterCancelled ==
    [][CancelledDelivered
       => /\ (rd_state' = "COMPLETED" => rd_state = "COMPLETED")
          /\ rd_completions' = rd_completions]_vars

\* C38: however many times and from however many threads cancel() is
\* called, the Cancelled event is delivered to the progress callback at
\* most once, and the downloader stays cancelled as after one call.
C38_CancelDeliversAtMostOnce ==
    /\ Cardinality({k \in 1..Len(rd_events) : rd_events[k] = "CANCELLED"}) <= 1
    /\ CancelledDelivered => rd_cancelled

\* two cancel() calls were made, the second while the first held the lock
\* or after it, both are over, and one event was delivered
C38_Witness ==
    /\ rd_cancels >= 2
    /\ \A c \in Cancellers : rd_cpc[c] = "idle"
    /\ Len(rd_events) = 1

\* ------------------------------------------------ properties of the metadata calls
\* no set_metadata call is in progress
NoMetaCallRunning == \A t \in Callers : md_th[t].pc = "idle"

\* C40: metadata updates are atomic: every key set by a set_metadata call
\* that returned since the last removal is stored once no call is running,
\* also when two calls for different keys overlapped; and after
\* remove_download, with no set_metadata begun since, nothing is stored
\* for the download once the overlapping calls are over.
C40_MetadataUpdatesAtomic ==
    NoMetaCallRunning
    => /\ \A key \in md_done : get_metadata(key)
       /\ md_removed => md_stored = 0

\* ------------------------------------------------ properties of the path naming
\* the session is running
PTRunning(s) == pt_sessions[s].pc \in {"created", "fetching", "muxing"}

\* C31: two sessions running at the same time, also two for one url, have
\* no temp file path and no output path in common.
C31_SessionPathsPrivate ==
    \A s1, s2 \in Sessions :
        (s1 # s2 /\ PTRunning(s1) /\ PTRunning(s2))
        => pt_sessions[s1].paths \cap pt_sessions[s2].paths = {}

\* two sessions for one url are both at the mux, each with its four paths
C31_Witness ==
    \E s1, s2 \in Sessions :
        /\ s1 # s2
        /\ pt_sessions[s1].url = pt_sessions[s2].url
        /\ pt_sessions[s1].pc = "muxing"
        /\ pt_sessions[s2].pc = "muxing"
        /\ Cardinality(pt_sessions[s1].paths) = 4
        /\ Cardinality(pt_sessions[s2].paths) = 4

\* ------------------------------------------------ properties of the StateManager
ForwardStates == {"QUEUED", "INITIALIZING", "DOWNLOADING", "PROCESSING"}

\* the order Queued -> Initializing -> Acquiring -> Muxing
Rank(st) ==
    CASE st = "QUEUED"       -> 1
      [] st = "INITIALIZING" -> 2
      [] st = "DOWNLOADING"  -> 3
      [] st = "PROCESSING"   -> 4

\* a move from state a to state b goes backward in that order
Backward(a, b) ==
    /\ a \in ForwardStates
    /\ b \in ForwardStates
    /\ Rank(b) < Rank(a)

\* the events delivered to the callback of id
DeliveredTo(id, log) == SelectSeq(log, LAMBDA e : e.id = id)

\* C5: once a registered session is in ERROR or CANCELLED, no update_state
\* or update_progress call delivers a further event to its callback or
\* changes its stored state.
C5_ErrorAndCancelledAbsorbing ==
    [][\A id \in Ids :
          (/\ HasProgress(id)
           /\ get_state(id) \in {"ERROR", "CANCELLED"}
           /\ sm_calls' = sm_calls + 1
           /\ sm_last'.op \in {"update_state", "update_progress"})
          => /\ get_state(id)' = get_state(id)
             /\ DeliveredTo(id, sm_delivered') = DeliveredTo(id, sm_delivered)]_vars

\* C23: an update_state call for a registered session with a callback
\* delivers exactly one event to that callback, and the event carries the
\* state the call was given; the events delivered to the callback of every
\* other session stay as they were.
C23_UpdateStateDeliversOneEvent ==
    [][\A id \in Ids :
          (/\ sm_calls' = sm_calls + 1
           /\ sm_last'.op = "update_state"
           /\ sm_last'.id = id
           /\ id \in sm_callbacks)
          => /\ Len(sm_delivered') = Len(sm_delivered) + 1
             /\ SubSeq(sm_delivered', 1, Len(sm_delivered)) = sm_delivered
             /\ sm_delivered'[Len(sm_delivered')].id = id
             /\ sm_delivered'[Len(sm_delivered')].state = sm_last'.state
             /\ \A other \in Ids \ {id} :
                   DeliveredTo(other, sm_delivered') = DeliveredTo(other, sm_delivered)]_vars

\* an update_state call changed the state of a session while another
\* session had a callback too, and its event was delivered
C23_Witness ==
    /\ sm_last.op = "update_state"
    /\ sm_last.state = "DOWNLOADING"
    /\ sm_callbacks = Ids
    /\ get_state(sm_last.id) = "DOWNLOADING"
    /\ Len(sm_delivered) = 1
    /\ sm_delivered[1].id = sm_last.id
    /\ sm_delivered[1].state = "DOWNLOADING"

\* C39: an update_state or update_progress call for an id that is not
\* registered (never registered, or removed) leaves get_state(id) and
\* get_progress(id) at None and invokes no callback.
C39_UnregisteredUpdateIsNoOp ==
    [][\A id \in Ids :
          (/\ sm_calls' = sm_calls + 1
           /\ sm_last'.op \in {"update_state", "update_progress"}
           /\ sm_last'.id = id
           /\ ~HasProgress(id)
           /\ get_state(id) = "None")
          => /\ get_state(id)' = "None"
             /\ ~HasProgress(id)'
             /\ sm_delivered' = sm_delivered]_vars

\* C6: an update_state call that would move a registered session backward
\* among QUEUED, INITIALIZING, DOWNLOADING and PROCESSING raises an error and
\* leaves the stored state as it was.
C6_BackwardUpdateRejected ==
    [][\A id \in Ids :
          (/\ sm_calls' = sm_calls + 1
           /\ sm_last'.op = "update_state"
           /\ sm_last'.id = id
           /\ HasProgress(id)
           /\ Backward(get_state(id), sm_last'.state))
          => /\ sm_last'.raised
             /\ get_state(id)' = get_state(id)]_vars

====
